---- MODULE Spec2Model ----
(***************************************************************************)
(* Model of the local development container runtime.                      *)
(*                                                                         *)
(* Part 1: the preview orchestrator (PreviewManager) and the dev-server    *)
(* supervisor (LocalDevServer).  Every async method is cut at its awaits:  *)
(* one action runs the code from one await to the next, so that calls      *)
(* interleave exactly where the event loop can interleave them.            *)
(***************************************************************************)
EXTENDS Bags, FiniteSets, Integers, Naturals, Sequences, TLC

(***************************************************************************)
(* Bounds of the model.                                                    *)
(***************************************************************************)
MaxPreviews == 2    \* createPreview calls per behaviour
MaxInFlight == 2    \* async calls that may be suspended at the same time
MaxCalls    == 3    \* calls and file-change events per behaviour
MaxTime     == 1    \* ticks of the clock behind `new Date()`
MaxHandles  == 2    \* backend handles one supervisor has in use at a time
PortSpan    == 2    \* number of ports of the scan range that are modelled

(***************************************************************************)
(* Program constants.                                                      *)
(***************************************************************************)
PortRangeMin == 3000
PortRangeMax == PortRangeMin + PortSpan - 1     \* 9000 in the source
DefaultHost  == "localhost"
autoRestartExtensions ==
  { <<".", "j", "s">>, <<".", "t", "s">>,
    <<".", "j", "s", "o", "n">>, <<".", "e", "n", "v">> }

(***************************************************************************)
(* Inputs.                                                                 *)
(***************************************************************************)
ScanPorts     == PortRangeMin .. PortRangeMax
NoPort        == 0                  \* config.port absent (falsy)
NoHost        == ""                 \* config.host absent (falsy)
EnvNames      == {"MODE"}
NoEnv         == [k \in {} |-> ""]  \* config.env absent
WorkDir       == "."                \* container.workdir
ProjectPaths  == {".", "app"}       \* projectPath arguments
UnknownId     == 0                  \* an id generatePreviewId never returned

\* createPreview arguments: projectPath and config
Requests ==
  { [path |-> ".", config |-> [port |-> NoPort, host |-> NoHost, env |-> NoEnv]],
    [path |-> "app",
     config |-> [port |-> NoPort, host |-> "preview.local",
                 env |-> [k \in EnvNames |-> "dev"]]],
    [path |-> "app",
     config |-> [port |-> PortRangeMin + 1, host |-> NoHost, env |-> NoEnv]] }

\* package.json contents, as far as detectProjectType reads them
NoManifest == [exists |-> FALSE, valid |-> FALSE, deps |-> {}, scripts |-> {}]
Manifest(deps, scripts) ==
  [exists |-> TRUE, valid |-> TRUE, deps |-> deps, scripts |-> scripts]
BrokenManifest == [exists |-> TRUE, valid |-> FALSE, deps |-> {}, scripts |-> {}]
\* the environments: the package.json of the working directory and of its
\* subdirectory, and the ports other programs hold
RootOnly(m) == [p \in ProjectPaths |-> IF p = WorkDir THEN m ELSE NoManifest]
Worlds ==
  { [fs |-> [p \in ProjectPaths |-> IF p = WorkDir THEN NoManifest
                                    ELSE Manifest({"vite"}, {"dev"})],
     busy |-> {}],
    [fs |-> RootOnly(Manifest({"vite"}, {"dev"})), busy |-> {}],
    [fs |-> RootOnly(Manifest({}, {"start"})), busy |-> {}],
    [fs |-> RootOnly(NoManifest), busy |-> {PortRangeMin}] }

\* changed files reported by the watcher, as character sequences
ChangedFiles ==
  { <<"a", ".", "t", "s">>,
    <<"a", ".", "m", "d">>,
    <<"a", ".", "t", "s", "x">>,
    <<"t", "s">>,
    <<"d", ".", "t", "s", "/", "m">>,
    <<"c", ".", "j", "s", "o", "n">> }

(***************************************************************************)
(* path.extname, as Node's posix implementation scans it from the right.   *)
(* Indices are 1-based; 0 stands for the source's -1.                      *)
(***************************************************************************)
RECURSIVE ExtScan(_, _, _)
ExtScan(p, i, st) ==
  IF i = 0 THEN st
  ELSE IF p[i] = "/"
       THEN IF ~st.matchedSlash
            THEN [st EXCEPT !.startPart = i + 1]
            ELSE ExtScan(p, i - 1, st)
       ELSE LET s1 == IF st.end = 0
                      THEN [st EXCEPT !.matchedSlash = FALSE, !.end = i]
                      ELSE st
                s2 == IF p[i] = "."
                      THEN IF s1.startDot = 0
                           THEN [s1 EXCEPT !.startDot = i]
                           ELSE IF s1.preDotState # 1
                                THEN [s1 EXCEPT !.preDotState = 1]
                                ELSE s1
                      ELSE IF s1.startDot # 0
                           THEN [s1 EXCEPT !.preDotState = -1]
                           ELSE s1
            IN ExtScan(p, i - 1, s2)

extname(p) ==
  LET st == ExtScan(p, Len(p),
                    [startDot |-> 0, startPart |-> 1, end |-> 0,
                     matchedSlash |-> TRUE, preDotState |-> 0])
  IN IF \/ st.startDot = 0
        \/ st.end = 0
        \/ st.preDotState = 0
        \/ (st.preDotState = 1 /\ st.startDot = st.end
              /\ st.startDot = st.startPart + 1)
     THEN << >>
     ELSE SubSeq(p, st.startDot, st.end)

\* mutant: restarts on any file that has an extension
shouldAutoRestart_AnyExtension(filePath) == extname(filePath) # << >>

shouldAutoRestart(filePath) == extname(filePath) \in autoRestartExtensions

(***************************************************************************)
(* State.                                                                  *)
(***************************************************************************)
VARIABLES
  previews,      \* PreviewManager.previews: the registered ids
  inst,          \* the PreviewInstance objects, registered or not
  usedPorts,     \* PreviewManager.usedPorts
  srv,           \* the LocalDevServer of each instance
  calls,         \* bag of suspended async calls (position and locals)
  watcher,       \* per instance: the file watcher of setupActivityMonitoring
  processEnv,    \* process.env, restricted to EnvNames
  manifest,      \* package.json of each directory
  externalBusy,  \* ports bound by programs outside the container
  now,           \* the clock
  nextId,        \* next id of generatePreviewId
  ncalls,        \* calls and file-change events so far
  emitted,       \* notifications emitted by the last step
  ret,           \* call completed by the last step, with its result
  alloc,         \* history: instances whose port came from findAvailablePort
  stopMidStart   \* history: instances stopped while a start was awaited

pvVars == << previews, inst, usedPorts, srv, calls, watcher, processEnv,
             manifest, externalBusy, now, nextId, ncalls, emitted, ret,
             alloc,
             stopMidStart >>

\* the cache store, the cached file-system layer and the disk beneath it
VARIABLES
  cache,         \* CacheManager.cache: the entries in insertion order
  statsCache,    \* OptimizedFileSystem.statsCache, in insertion order
  disk,          \* the files and directories of the host, by absolute path
  fsCalls,       \* bag of suspended file-system calls
  hist           \* history: what the last completed calls did (for the claims)
fsVars == << cache, statsCache, disk, fsCalls, hist >>

\* the terminal multiplexer and the child processes of the host
VARIABLES
  sessions,      \* TerminalManager.sessions: session id -> session object
  sessObjs,      \* the TerminalSession objects ever created, in creation order
  procs,         \* the child processes ever spawned, in spawn order
  termCalls      \* bag of suspended executeCommand calls
termVars == << sessions, sessObjs, procs, termCalls >>

\* the output of one spawned process and the merged stream over it
VARIABLES
  chan,          \* per channel: the chunks the process wrote, and closed
  first,         \* per channel: the promise mergeAsyncGenerators made
  merged         \* the merged generator: where it stands, what it yielded
streamVars == << chan, first, merged >>

\* the file tree of the FileManager
VARIABLES
  fileTree       \* FileManager.fileTree: the tree stored last, or Null
treeVars == << fileTree >>

vars == << pvVars, fsVars, termVars, streamVars, treeVars >>

StreamIdle ==
  /\ chan = << >>
  /\ first = << >>
  /\ merged = << >>
TreeIdle == fileTree = << >>

TermIdle ==
  /\ sessions = << >>
  /\ sessObjs = << >>
  /\ procs = << >>
  /\ termCalls = EmptyBag

\* the parts of the runtime an operation does not own stay as they are
FsIdle ==
  /\ cache = << >>
  /\ statsCache = << >>
  /\ disk = << >>
  /\ fsCalls = EmptyBag
  /\ hist = << >>

NoRet == [op |-> "none", id |-> UnknownId, result |-> "none"]
Ret(op, id, result) == [op |-> op, id |-> id, result |-> result]
Ev(type, id) == [type |-> type, id |-> id]

Url(host, port) == [scheme |-> "http", host |-> host, port |-> port]

\* A LocalDevServer: its three handle fields (0 is null) and, beside them,
\* the backends it started that are still alive, whether or not a field
\* still refers to them.
Null == 0
NewServer ==
  [root |-> WorkDir,        \* container.workdir: what it inspects and serves
   projectType |-> "",      \* what its last detectProjectType returned
   server |-> Null, httpServer |-> Null, process |-> Null,
   liveVite |-> {}, liveHttp |-> {}, liveProc |-> {},
   script |-> "", childEnv |-> NoEnv]

\* A suspended call: op and pc give the await it is suspended at, the other
\* fields are its locals (h: the backend handle it is waiting on).
Call(op, id, pc, port, cfg, path, h) ==
  [op |-> op, id |-> id, pc |-> pc, port |-> port, cfg |-> cfg,
   path |-> path, h |-> h]
NoCfg == [port |-> NoPort, host |-> NoHost, env |-> NoEnv]
At(c, pc) == [c EXCEPT !.pc = pc]

InFlight == BagToSet(calls)
Suspend(c) == calls (+) SetToBag({c})
Resume(c)  == calls (-) SetToBag({c})
Move(c, d) == (calls (-) SetToBag({c})) (+) SetToBag({d})

\* ports a bind would find taken
ProbeHeld == { c.port : c \in { d \in InFlight : d.pc = "probing" } }
ListenHeld ==
  { inst[i].port : i \in { j \in DOMAIN inst :
                            srv[j].liveHttp # {} \/ srv[j].liveVite # {} } }
Bound == externalBusy \cup ProbeHeld \cup ListenHeld

Init ==
  /\ previews = {}
  /\ inst = << >>
  /\ usedPorts = {}
  /\ srv = << >>
  /\ calls = EmptyBag
  /\ watcher = << >>
  /\ processEnv = [k \in EnvNames |-> "unset"]
  /\ \E w \in Worlds : manifest = w.fs /\ externalBusy = w.busy
  /\ now = 0
  /\ nextId = 1
  /\ ncalls = 0
  /\ emitted = << >>
  /\ ret = NoRet
  /\ alloc = {}
  /\ stopMidStart = {}
  /\ FsIdle
  /\ TermIdle
  /\ StreamIdle
  /\ TreeIdle


(***************************************************************************)
(* LocalDevServer.                                                         *)
(***************************************************************************)
\* mutant: the scripts are looked at before the dependencies
ProjectType_ScriptsFirst(m) ==
  IF ~m.exists THEN "static"
  ELSE IF ~m.valid THEN "static"
  ELSE IF "start" \in m.scripts \/ "dev" \in m.scripts THEN "node"
  ELSE IF "next" \in m.deps THEN "next"
  ELSE IF "vite" \in m.deps THEN "vite"
  ELSE IF "react-scripts" \in m.deps THEN "react"
  ELSE "static"

ProjectType(m) ==
  IF ~m.exists THEN "static"
  ELSE IF ~m.valid THEN "static"
  ELSE IF "next" \in m.deps THEN "next"
  ELSE IF "vite" \in m.deps THEN "vite"
  ELSE IF "react-scripts" \in m.deps THEN "react"
  ELSE IF "start" \in m.scripts \/ "dev" \in m.scripts THEN "node"
  ELSE "static"

\* the manifest a supervisor inspects: container.fs resolves "package.json"
\* against the container's working directory
ManifestOf(id) == manifest[srv[id].root]

hasNpmScript(m, scriptName) == m.exists /\ m.valid /\ scriptName \in m.scripts

isRunning(s) == s.server # Null \/ s.httpServer # Null \/ s.process # Null

HandlesInUse(id) ==
  srv[id].liveVite \cup srv[id].liveHttp \cup srv[id].liveProc
    \cup {srv[id].server, srv[id].httpServer, srv[id].process}
    \cup { c.h : c \in { d \in InFlight : d.id = id } }
FreeHandles(id) == (1 .. MaxHandles) \ HandlesInUse(id)
FreshHandle(id) == CHOOSE h \in FreeHandles(id) : \A g \in FreeHandles(id) : h <= g

startStaticServer(s, h) ==
  [s EXCEPT !.projectType = "static", !.httpServer = h, !.liveHttp = @ \cup {h}]

\* nodeSpawn inside startWithNpmScript: the child exists from here on
SpawnChild(s, h, scriptName) ==
  [s EXCEPT !.projectType = ProjectType(manifest[s.root]),
            !.liveProc = @ \cup {h}, !.script = scriptName,
            !.childEnv = processEnv]

\* stop(), from `if (this.httpServer)` to its end
StopTail(s) ==
  [s EXCEPT !.liveHttp = @ \ {s.httpServer}, !.httpServer = Null,
            !.liveProc = @ \ {s.process}, !.process = Null]

\* stop() up to its first await: the position it reaches and the server then
StopBeginPc(s) == IF s.server # Null THEN "viteClosing" ELSE "stopDone"
StopBeginSrv(s) == IF s.server # Null THEN s ELSE StopTail(s)

StartPcs == {"detect", "read", "hasScript", "spawned", "viteCreate", "viteListen"}
StartAwaited(id) == \E c \in InFlight : c.id = id /\ c.pc \in StartPcs

Quiet == emitted' = << >> /\ ret' = NoRet
EnvSame ==
  /\ UNCHANGED << manifest, externalBusy >>
  /\ UNCHANGED fsVars /\ UNCHANGED termVars /\ UNCHANGED streamVars
  /\ UNCHANGED treeVars
Counted == ncalls < MaxCalls /\ ncalls' = ncalls + 1

\* start() resumes from fs.exists("package.json")
StartDetect(c) ==
  /\ c.pc = "detect"
  /\ IF ~ManifestOf(c.id).exists
     THEN /\ FreeHandles(c.id) # {}
          /\ srv' = [srv EXCEPT ![c.id] = startStaticServer(@, FreshHandle(c.id))]
          /\ calls' = Move(c, At(c, "started"))
     ELSE /\ srv' = srv
          /\ calls' = Move(c, At(c, "read"))
  /\ Quiet /\ EnvSame /\ UNCHANGED ncalls
  /\ UNCHANGED << previews, inst, usedPorts, watcher, processEnv, now, nextId,
                  alloc, stopMidStart >>

\* start() resumes from fs.readFile("package.json"): classify and dispatch
StartRead(c) ==
  /\ c.pc = "read"
  /\ LET type == ProjectType(ManifestOf(c.id))
         h == FreshHandle(c.id)
     IN CASE type = "static" ->
               /\ FreeHandles(c.id) # {}
               /\ srv' = [srv EXCEPT ![c.id] = startStaticServer(@, h)]
               /\ calls' = Move(c, At(c, "started"))
          [] type = "vite" ->
               /\ srv' = [srv EXCEPT ![c.id].projectType = type]
               /\ calls' = Move(c, At(c, "viteCreate"))
          [] type = "next" ->
               \/ /\ FreeHandles(c.id) # {}
                  /\ srv' = [srv EXCEPT ![c.id] = SpawnChild(@, h, "dev")]
                  /\ calls' = Move(c, [c EXCEPT !.pc = "spawned", !.h = h])
               \/ /\ srv' = [srv EXCEPT ![c.id].projectType = type]
                  /\ calls' = Move(c, At(c, "startFailed"))
          [] type = "react" ->
               \/ /\ FreeHandles(c.id) # {}
                  /\ srv' = [srv EXCEPT ![c.id] = SpawnChild(@, h, "start")]
                  /\ calls' = Move(c, [c EXCEPT !.pc = "spawned", !.h = h])
               \/ /\ srv' = [srv EXCEPT ![c.id].projectType = type]
                  /\ calls' = Move(c, At(c, "startFailed"))
          [] type = "node" ->
               /\ srv' = [srv EXCEPT ![c.id].projectType = type]
               /\ calls' = Move(c, At(c, "hasScript"))
  /\ Quiet /\ EnvSame /\ UNCHANGED ncalls
  /\ UNCHANGED << previews, inst, usedPorts, watcher, processEnv, now, nextId,
                  alloc, stopMidStart >>

\* startNodeServer resumes from hasNpmScript("dev") and spawns the script
StartHasScript(c) ==
  /\ c.pc = "hasScript"
  /\ LET script == IF hasNpmScript(ManifestOf(c.id), "dev") THEN "dev" ELSE "start"
         h == FreshHandle(c.id)
     IN \/ /\ FreeHandles(c.id) # {}
           /\ srv' = [srv EXCEPT ![c.id] = SpawnChild(@, h, script)]
           /\ calls' = Move(c, [c EXCEPT !.pc = "spawned", !.h = h])
        \/ /\ srv' = srv
           /\ calls' = Move(c, At(c, "startFailed"))
  /\ Quiet /\ EnvSame /\ UNCHANGED ncalls
  /\ UNCHANGED << previews, inst, usedPorts, watcher, processEnv, now, nextId,
                  alloc, stopMidStart >>

\* startWithNpmScript resumes from terminal.spawn: this.process = ...
StartSpawned(c) ==
  /\ c.pc = "spawned"
  /\ srv' = [srv EXCEPT ![c.id].process = c.h]
  /\ calls' = Move(c, [c EXCEPT !.pc = "started", !.h = Null])
  /\ Quiet /\ EnvSame /\ UNCHANGED ncalls
  /\ UNCHANGED << previews, inst, usedPorts, watcher, processEnv, now, nextId,
                  alloc, stopMidStart >>

\* startViteServer resumes from createServer(...): this.server = ...
StartViteCreate(c) ==
  /\ c.pc = "viteCreate"
  /\ \/ /\ FreeHandles(c.id) # {}
        /\ LET h == FreshHandle(c.id)
           IN /\ srv' = [srv EXCEPT ![c.id].server = h,
                                    ![c.id].liveVite = @ \cup {h}]
              /\ calls' = Move(c, [c EXCEPT !.pc = "viteListen", !.h = h])
     \/ /\ srv' = srv
        /\ calls' = Move(c, At(c, "startFailed"))
  /\ Quiet /\ EnvSame /\ UNCHANGED ncalls
  /\ UNCHANGED << previews, inst, usedPorts, watcher, processEnv, now, nextId,
                  alloc, stopMidStart >>

\* startViteServer resumes from server.listen()
StartViteListen(c) ==
  /\ c.pc = "viteListen"
  /\ \/ calls' = Move(c, [c EXCEPT !.pc = "started", !.h = Null])
     \/ calls' = Move(c, [c EXCEPT !.pc = "startFailed", !.h = Null])
  /\ Quiet /\ EnvSame /\ UNCHANGED ncalls
  /\ UNCHANGED << previews, inst, usedPorts, srv, watcher, processEnv, now,
                  nextId, alloc, stopMidStart >>

\* stop() resumes from `await this.server.close()`
StopViteClosed(c) ==
  /\ c.pc = "viteClosing"
  /\ \/ /\ srv' = [srv EXCEPT ![c.id] =
                     StopTail([@ EXCEPT !.server = Null,
                                        !.liveVite = @ \ {c.h}])]
        /\ calls' = Move(c, [c EXCEPT !.pc = "stopDone", !.h = Null])
     \/ /\ srv' = srv
        /\ calls' = Move(c, [c EXCEPT !.pc = "stopFailed", !.h = Null])
  /\ Quiet /\ EnvSame /\ UNCHANGED ncalls
  /\ UNCHANGED << previews, inst, usedPorts, watcher, processEnv, now, nextId,
                  alloc, stopMidStart >>

\* a child process of a supervisor exits by itself
ProcessExit(id, h) ==
  /\ id \in DOMAIN srv
  /\ h \in srv[id].liveProc
  /\ srv' = [srv EXCEPT ![id].liveProc = @ \ {h}]
  /\ Quiet /\ EnvSame /\ UNCHANGED ncalls
  /\ UNCHANGED << previews, inst, usedPorts, calls, watcher, processEnv, now,
                  nextId, alloc, stopMidStart >>


(***************************************************************************)
(* PreviewManager.                                                         *)
(***************************************************************************)
\* findAvailablePort: the next port of the range, from `from` on, that the
\* used-port set does not hold (0: the range is exhausted)
NextCandidate(from) ==
  LET free == { q \in ScanPorts : q >= from /\ q \notin usedPorts }
  IN IF free = {} THEN NoPort
     ELSE CHOOSE q \in free : \A r \in free : q <= r

\* isPortAvailable up to its await: server.listen(port) binds at once
ProbePc(port) == IF port \in Bound THEN "probeFailed" ELSE "probing"

\* createPreview from `new LocalDevServer` to the first await of start()
Register(c, port) ==
  /\ previews' = previews \cup {c.id}
  /\ inst' = inst @@ (c.id :>
       [id |-> c.id, port |-> port,
        url |-> Url(IF c.cfg.host # NoHost THEN c.cfg.host ELSE DefaultHost, port),
        status |-> "starting", projectPath |-> c.path, lastActivity |-> now])
  /\ usedPorts' = usedPorts \cup {port}
  /\ srv' = srv @@ (c.id :> NewServer)
  /\ watcher' = watcher @@ (c.id :> "none")
  /\ processEnv' = [k \in EnvNames |->
                      IF k \in DOMAIN c.cfg.env THEN c.cfg.env[k] ELSE processEnv[k]]
  /\ alloc' = IF c.cfg.port = NoPort THEN alloc \cup {c.id} ELSE alloc

CreatePreviewCall(projectPath, config) ==
  /\ nextId <= MaxPreviews
  /\ BagCardinality(calls) < MaxInFlight
  /\ nextId' = nextId + 1
  /\ LET c == Call("create", nextId, "detect", config.port, config, projectPath, Null)
         cand == NextCandidate(PortRangeMin)
     IN IF config.port # NoPort
        THEN /\ Register(c, config.port)
             /\ calls' = Suspend(Call("create", nextId, "detect", NoPort, NoCfg,
                                      "", Null))
             /\ Quiet
        ELSE /\ UNCHANGED << previews, inst, usedPorts, srv, watcher,
                             processEnv, alloc >>
             /\ IF cand = NoPort
                THEN /\ calls' = calls
                     /\ emitted' = << >>
                     /\ ret' = Ret("create", nextId, "throw")
                ELSE /\ calls' = Suspend([c EXCEPT !.pc = ProbePc(cand),
                                                   !.port = cand])
                     /\ Quiet
  /\ EnvSame /\ Counted
  /\ UNCHANGED << now, stopMidStart >>

\* isPortAvailable: the test server is listening and is closed again
ProbeListening(c) ==
  /\ c.pc = "probing"
  /\ calls' = Move(c, At(c, "probeClosed"))
  /\ Quiet /\ EnvSame /\ UNCHANGED ncalls
  /\ UNCHANGED << previews, inst, usedPorts, srv, watcher, processEnv, now,
                  nextId, alloc, stopMidStart >>

\* isPortAvailable resolves true; findAvailablePort returns the port and
\* createPreview goes on with it
ProbeClosed(c) ==
  /\ c.pc = "probeClosed"
  /\ Register(c, c.port)
  /\ calls' = Move(c, Call("create", c.id, "detect", NoPort, NoCfg, "", Null))
  /\ Quiet /\ EnvSame /\ UNCHANGED ncalls
  /\ UNCHANGED << now, nextId, stopMidStart >>

\* isPortAvailable resolves false; findAvailablePort tries the next port
ProbeFailed(c) ==
  /\ c.pc = "probeFailed"
  /\ LET cand == NextCandidate(c.port + 1)
     IN IF cand = NoPort
        THEN /\ calls' = Resume(c)
             /\ emitted' = << >>
             /\ ret' = Ret("create", c.id, "throw")
        ELSE /\ calls' = Move(c, [c EXCEPT !.pc = ProbePc(cand), !.port = cand])
             /\ Quiet
  /\ EnvSame /\ UNCHANGED ncalls
  /\ UNCHANGED << previews, inst, usedPorts, srv, watcher, processEnv, now,
                  nextId, alloc, stopMidStart >>

\* createPreview resumes from a successful server.start()
CreateStarted(c) ==
  /\ c.op = "create" /\ c.pc = "started"
  /\ inst' = [inst EXCEPT ![c.id].status = "running"]
  /\ watcher' = [watcher EXCEPT ![c.id] = "pending"]
  /\ emitted' = << Ev("previewStarted", c.id) >>
  /\ ret' = Ret("create", c.id, "running")
  /\ calls' = Resume(c)
  /\ EnvSame /\ UNCHANGED ncalls
  /\ UNCHANGED << previews, usedPorts, srv, processEnv, now, nextId, alloc,
                  stopMidStart >>

\* createPreview catches the failure of server.start()
CreateStartFailed(c) ==
  /\ c.op = "create" /\ c.pc = "startFailed"
  /\ inst' = [inst EXCEPT ![c.id].status = "error"]
  /\ emitted' = << Ev("previewError", c.id) >>
  /\ ret' = Ret("create", c.id, "throw")
  /\ calls' = Resume(c)
  /\ EnvSame /\ UNCHANGED ncalls
  /\ UNCHANGED << previews, usedPorts, srv, watcher, processEnv, now, nextId,
                  alloc, stopMidStart >>

\* setupActivityMonitoring: readdir(projectPath) resolved, the watcher is on
WatcherAttach(id) ==
  /\ id \in DOMAIN watcher
  /\ watcher[id] = "pending"
  /\ watcher' = [watcher EXCEPT ![id] = "attached"]
  /\ Quiet /\ EnvSame /\ UNCHANGED ncalls
  /\ UNCHANGED << previews, inst, usedPorts, srv, calls, processEnv, now,
                  nextId, alloc, stopMidStart >>

\* mutant: an unknown id is reported as an error
StopNotFound_Reports(previewId) ==
  /\ emitted' = << Ev("previewError", previewId) >>
  /\ ret' = Ret("stop", previewId, FALSE)
  /\ UNCHANGED << srv, calls, stopMidStart >>

\* stopPreview: `if (!preview) return false`
StopNotFound(previewId) ==
  /\ emitted' = << >>
  /\ ret' = Ret("stop", previewId, FALSE)
  /\ UNCHANGED << srv, calls, stopMidStart >>

StopPreviewCall(previewId) ==
  /\ BagCardinality(calls) < MaxInFlight
  /\ IF previewId \notin previews
     THEN StopNotFound(previewId)
     ELSE /\ srv' = [srv EXCEPT ![previewId] = StopBeginSrv(@)]
          /\ calls' = Suspend(Call("stop", previewId, StopBeginPc(srv[previewId]),
                                   NoPort, NoCfg, "", srv[previewId].server))
          /\ stopMidStart' = IF StartAwaited(previewId)
                             THEN stopMidStart \cup {previewId}
                             ELSE stopMidStart
          /\ Quiet
  /\ EnvSame /\ Counted
  /\ UNCHANGED << previews, inst, usedPorts, watcher, processEnv, now, nextId,
                  alloc >>

\* mutant: the port is not released
StopPreviewDone_KeepsPort(c) ==
  /\ c.op = "stop" /\ c.pc = "stopDone"
  /\ inst' = [inst EXCEPT ![c.id].status = "stopped"]
  /\ previews' = previews \ {c.id}
  /\ emitted' = << Ev("previewStopped", c.id) >>
  /\ ret' = Ret("stop", c.id, TRUE)
  /\ calls' = Resume(c)
  /\ EnvSame /\ UNCHANGED ncalls
  /\ UNCHANGED << usedPorts, srv, watcher, processEnv, now, nextId, alloc,
                  stopMidStart >>

\* stopPreview resumes from a successful server.stop()
StopPreviewDone(c) ==
  /\ c.op = "stop" /\ c.pc = "stopDone"
  /\ inst' = [inst EXCEPT ![c.id].status = "stopped"]
  /\ usedPorts' = usedPorts \ {inst[c.id].port}
  /\ previews' = previews \ {c.id}
  /\ emitted' = << Ev("previewStopped", c.id) >>
  /\ ret' = Ret("stop", c.id, TRUE)
  /\ calls' = Resume(c)
  /\ EnvSame /\ UNCHANGED ncalls
  /\ UNCHANGED << srv, watcher, processEnv, now, nextId, alloc, stopMidStart >>

\* stopPreview catches the failure of server.stop()
StopPreviewFailed(c) ==
  /\ c.op = "stop" /\ c.pc = "stopFailed"
  /\ emitted' = << Ev("previewError", c.id) >>
  /\ ret' = Ret("stop", c.id, FALSE)
  /\ calls' = Resume(c)
  /\ EnvSame /\ UNCHANGED ncalls
  /\ UNCHANGED << previews, inst, usedPorts, srv, watcher, processEnv, now,
                  nextId, alloc, stopMidStart >>

\* restartPreview up to its first await
RestartBegin(previewId) ==
  IF previewId \notin previews
  THEN /\ ret' = Ret("restart", previewId, FALSE)
       /\ UNCHANGED << srv, calls >>
  ELSE /\ BagCardinality(calls) < MaxInFlight
       /\ srv' = [srv EXCEPT ![previewId] = StopBeginSrv(@)]
       /\ calls' = Suspend(Call("restart", previewId, StopBeginPc(srv[previewId]),
                                NoPort, NoCfg, "", srv[previewId].server))
       /\ ret' = NoRet

RestartPreviewCall(previewId) ==
  /\ RestartBegin(previewId)
  /\ emitted' = << >>
  /\ EnvSame /\ Counted
  /\ UNCHANGED << previews, inst, usedPorts, watcher, processEnv, now, nextId,
                  alloc, stopMidStart >>

\* restartPreview resumes from server.stop() and calls server.start()
RestartStopped(c) ==
  /\ c.op = "restart" /\ c.pc = "stopDone"
  /\ inst' = [inst EXCEPT ![c.id].status = "starting"]
  /\ calls' = Move(c, At(c, "detect"))
  /\ Quiet /\ EnvSame /\ UNCHANGED ncalls
  /\ UNCHANGED << previews, usedPorts, srv, watcher, processEnv, now, nextId,
                  alloc, stopMidStart >>

\* restartPreview resumes from a successful server.start()
RestartStarted(c) ==
  /\ c.op = "restart" /\ c.pc = "started"
  /\ inst' = [inst EXCEPT ![c.id].status = "running",
                          ![c.id].lastActivity = now]
  /\ emitted' = << Ev("previewRestarted", c.id) >>
  /\ ret' = Ret("restart", c.id, TRUE)
  /\ calls' = Resume(c)
  /\ EnvSame /\ UNCHANGED ncalls
  /\ UNCHANGED << previews, usedPorts, srv, watcher, processEnv, now, nextId,
                  alloc, stopMidStart >>

\* mutant: a failed restart refreshes lastActivity as well
RestartFailed_Refreshes(c) ==
  /\ c.op = "restart" /\ c.pc \in {"stopFailed", "startFailed"}
  /\ inst' = [inst EXCEPT ![c.id].status = "error",
                          ![c.id].lastActivity = now]
  /\ emitted' = << Ev("previewError", c.id) >>
  /\ ret' = Ret("restart", c.id, FALSE)
  /\ calls' = Resume(c)
  /\ EnvSame /\ UNCHANGED ncalls
  /\ UNCHANGED << previews, usedPorts, srv, watcher, processEnv, now, nextId,
                  alloc, stopMidStart >>

\* restartPreview catches the failure of server.stop() or server.start()
RestartFailed(c) ==
  /\ c.op = "restart" /\ c.pc \in {"stopFailed", "startFailed"}
  /\ inst' = [inst EXCEPT ![c.id].status = "error"]
  /\ emitted' = << Ev("previewError", c.id) >>
  /\ ret' = Ret("restart", c.id, FALSE)
  /\ calls' = Resume(c)
  /\ EnvSame /\ UNCHANGED ncalls
  /\ UNCHANGED << previews, usedPorts, srv, watcher, processEnv, now, nextId,
                  alloc, stopMidStart >>

\* the watcher's "change" handler of one instance
FileChange(id, path) ==
  /\ id \in DOMAIN watcher
  /\ watcher[id] = "attached"
  /\ inst' = [inst EXCEPT ![id].lastActivity = now]
  /\ emitted' = << Ev("fileChanged", id) >>
  /\ IF shouldAutoRestart(path)
     THEN RestartBegin(id)
     ELSE /\ ret' = NoRet
          /\ UNCHANGED << srv, calls >>
  /\ EnvSame /\ Counted
  /\ UNCHANGED << previews, usedPorts, watcher, processEnv, now, nextId,
                  alloc, stopMidStart >>

\* time passes
Tick ==
  /\ now < MaxTime
  /\ now' = now + 1
  /\ Quiet /\ EnvSame /\ UNCHANGED ncalls
  /\ UNCHANGED << previews, inst, usedPorts, srv, calls, watcher, processEnv,
                  nextId, alloc, stopMidStart >>

Next ==
  \/ \E r \in Requests : CreatePreviewCall(r.path, r.config)
  \/ \E c \in InFlight : ProbeListening(c)
  \/ \E c \in InFlight : ProbeClosed(c)
  \/ \E c \in InFlight : ProbeFailed(c)
  \/ \E c \in InFlight : StartDetect(c)
  \/ \E c \in InFlight : StartRead(c)
  \/ \E c \in InFlight : StartHasScript(c)
  \/ \E c \in InFlight : StartSpawned(c)
  \/ \E c \in InFlight : StartViteCreate(c)
  \/ \E c \in InFlight : StartViteListen(c)
  \/ \E c \in InFlight : CreateStarted(c)
  \/ \E c \in InFlight : CreateStartFailed(c)
  \/ \E id \in DOMAIN inst : WatcherAttach(id)
  \/ \E id \in DOMAIN inst \cup {UnknownId} : StopPreviewCall(id)
  \/ \E c \in InFlight : StopViteClosed(c)
  \/ \E c \in InFlight : StopPreviewDone(c)
  \/ \E c \in InFlight : StopPreviewFailed(c)
  \/ \E id \in DOMAIN inst \cup {UnknownId} : RestartPreviewCall(id)
  \/ \E c \in InFlight : RestartStopped(c)
  \/ \E c \in InFlight : RestartStarted(c)
  \/ \E c \in InFlight : RestartFailed(c)
  \/ \E id \in DOMAIN inst, f \in ChangedFiles : FileChange(id, f)
  \/ \E id \in DOMAIN inst, h \in 1 .. MaxHandles : ProcessExit(id, h)
  \/ Tick

Spec == Init /\ [][Next]_vars


(***************************************************************************)
(* The supervisor on its own: one LocalDevServer driven through start()    *)
(* and stop(), over every kind of package.json detectProjectType           *)
(* distinguishes.                                                          *)
(***************************************************************************)
SampleManifests ==
  { NoManifest, BrokenManifest,
    Manifest({"next"}, {"dev", "start"}),
    Manifest({"next", "vite"}, {"dev"}),
    Manifest({"vite"}, {"dev"}),
    Manifest({"react-scripts"}, {"start"}),
    Manifest({"express"}, {"start"}),
    Manifest({}, {"dev"}),
    Manifest({}, {"dev", "start"}),
    Manifest({"express"}, {"build"}),
    Manifest({}, {}) }

ServerId == 1

ServerInit ==
  /\ previews = {}
  /\ inst = << >>
  /\ usedPorts = {}
  /\ srv = (ServerId :> NewServer)
  /\ calls = EmptyBag
  /\ watcher = << >>
  /\ processEnv = [k \in EnvNames |-> "unset"]
  /\ \E m \in SampleManifests : manifest = RootOnly(m)
  /\ externalBusy = {}
  /\ now = 0
  /\ nextId = 1
  /\ ncalls = 0
  /\ emitted = << >>
  /\ ret = NoRet
  /\ alloc = {}
  /\ stopMidStart = {}
  /\ FsIdle
  /\ TermIdle
  /\ StreamIdle
  /\ TreeIdle

\* start() is called: it runs to `await this.container.fs.exists(...)`
ServerStartCall(id) ==
  /\ BagCardinality(calls) < MaxInFlight
  /\ calls' = Suspend(Call("start", id, "detect", NoPort, NoCfg, "", Null))
  /\ Quiet /\ EnvSame /\ Counted
  /\ UNCHANGED << previews, inst, usedPorts, srv, watcher, processEnv, now,
                  nextId, alloc, stopMidStart >>

\* start() returns or rejects to its caller
ServerStartDone(c) ==
  /\ c.op = "start" /\ c.pc \in {"started", "startFailed"}
  /\ calls' = Resume(c)
  /\ emitted' = << >>
  /\ ret' = Ret("start", c.id, IF c.pc = "started" THEN "ok" ELSE "throw")
  /\ EnvSame /\ UNCHANGED ncalls
  /\ UNCHANGED << previews, inst, usedPorts, srv, watcher, processEnv, now,
                  nextId, alloc, stopMidStart >>

\* stop() is called: it runs to `await this.server.close()` or to its end
ServerStopCall(id) ==
  /\ BagCardinality(calls) < MaxInFlight
  /\ srv' = [srv EXCEPT ![id] = StopBeginSrv(@)]
  /\ calls' = Suspend(Call("halt", id, StopBeginPc(srv[id]), NoPort, NoCfg, "",
                           srv[id].server))
  /\ Quiet /\ EnvSame /\ Counted
  /\ UNCHANGED << previews, inst, usedPorts, watcher, processEnv, now, nextId,
                  alloc, stopMidStart >>

\* stop() returns or rejects to its caller
ServerStopDone(c) ==
  /\ c.op = "halt" /\ c.pc \in {"stopDone", "stopFailed"}
  /\ calls' = Resume(c)
  /\ emitted' = << >>
  /\ ret' = Ret("halt", c.id, IF c.pc = "stopDone" THEN "ok" ELSE "throw")
  /\ EnvSame /\ UNCHANGED ncalls
  /\ UNCHANGED << previews, inst, usedPorts, srv, watcher, processEnv, now,
                  nextId, alloc, stopMidStart >>

ServerNext ==
  \/ \E id \in DOMAIN srv : ServerStartCall(id)
  \/ \E c \in InFlight : StartDetect(c)
  \/ \E c \in InFlight : StartRead(c)
  \/ \E c \in InFlight : StartHasScript(c)
  \/ \E c \in InFlight : StartSpawned(c)
  \/ \E c \in InFlight : StartViteCreate(c)
  \/ \E c \in InFlight : StartViteListen(c)
  \/ \E c \in InFlight : ServerStartDone(c)
  \/ \E id \in DOMAIN srv : ServerStopCall(id)
  \/ \E c \in InFlight : StopViteClosed(c)
  \/ \E c \in InFlight : ServerStopDone(c)
  \/ \E id \in DOMAIN srv, h \in 1 .. MaxHandles : ProcessExit(id, h)

SpecServer == ServerInit /\ [][ServerNext]_vars


(***************************************************************************)
(* Claims about the preview orchestrator.                                  *)
(***************************************************************************)
LiveBackends(id) ==
  srv[id].liveVite \cup srv[id].liveHttp \cup srv[id].liveProc
Pending(id) == \E c \in InFlight : c.id = id
\* the call c completes in this step
Completes(c) == c \in InFlight /\ calls' = Resume(c)
RestartCalls(id) ==
  { Call("restart", id, pc, NoPort, NoCfg, "", h) :
      pc \in {"viteClosing", "stopDone"}, h \in 0 .. MaxHandles }

\* C1: two registered instances whose ports were both chosen by
\* findAvailablePort never hold the same port.
CE_C1 ==
  \A i \in previews : \A j \in previews :
    (i # j /\ i \in alloc /\ j \in alloc) => inst[i].port # inst[j].port

\* C2: every registered instance has its port in the used-port set.
CE_C2 == \A i \in previews : inst[i].port \in usedPorts

\* C3: once stopPreview(id) was called while a start of the instance was
\* awaited and every call on the instance has completed, the instance holds
\* no port of the used-port set and none of its backends is live.
CE_C3 ==
  \A i \in stopMidStart :
    ~Pending(i) =>
      /\ LiveBackends(i) = {}
      /\ \/ inst[i].port \notin usedPorts
         \/ \E j \in previews : j # i /\ inst[j].port = inst[i].port

\* C4: when createPreview rejects because the supervisor's start failed, the
\* instance is not left in status starting and its port is not left in the
\* used-port set.
CE_C4 ==
  (ret.op = "create" /\ ret.result = "throw" /\ ret.id \in DOMAIN inst) =>
    /\ inst[ret.id].status # "starting"
    /\ inst[ret.id].port \notin usedPorts

\* C5: stopPreview on an id that is not registered (never created, or already
\* stopped) returns false, emits nothing and changes neither the registry,
\* the instances, the used-port set, the supervisors nor any pending call.
Thm_C5 ==
  [][\A id \in DOMAIN inst \cup {UnknownId} :
       (StopPreviewCall(id) /\ id \notin previews) =>
          /\ ret' = Ret("stop", id, FALSE)
          /\ emitted' = << >>
          /\ UNCHANGED << previews, inst, usedPorts, srv, calls, watcher >>]_vars

W_C5 ==
  /\ ret.op = "stop" /\ ret.result = FALSE /\ emitted = << >>
  /\ ret.id \in DOMAIN inst
  /\ inst[ret.id].status = "stopped"
  /\ ret.id \notin previews

\* C6: a stopPreview call whose supervisor stopped returns true, unregisters
\* the instance, takes its port out of the used-port set and emits exactly one
\* stopped notification; one whose supervisor failed to stop returns false,
\* emits one error notification and leaves registry and used ports alone.
Thm_C6 ==
  [][\A c \in InFlight :
       (c.op = "stop" /\ Completes(c)) =>
          IF c.pc = "stopDone"
          THEN /\ ret' = Ret("stop", c.id, TRUE)
               /\ c.id \notin previews'
               /\ inst[c.id].port \notin usedPorts'
               /\ inst'[c.id].status = "stopped"
               /\ emitted' = << Ev("previewStopped", c.id) >>
          ELSE /\ c.pc = "stopFailed"
               /\ ret' = Ret("stop", c.id, FALSE)
               /\ emitted' = << Ev("previewError", c.id) >>
               /\ UNCHANGED << previews, usedPorts, inst >>]_vars

W_C6 ==
  /\ ret.op = "stop" /\ ret.result = TRUE
  /\ ret.id \notin previews
  /\ inst[ret.id].port \notin usedPorts
  /\ emitted = << Ev("previewStopped", ret.id) >>

\* C7: a createPreview that returns for a project path without a manifest has
\* classified the project as static, returns the instance running, and its
\* url is http://<host>:<port> with the allocated port.
CE_C7 ==
  (/\ ret.op = "create" /\ ret.result = "running"
   /\ ~manifest[inst[ret.id].projectPath].exists) =>
    /\ srv[ret.id].projectType = "static"
    /\ inst[ret.id].status = "running"
    /\ inst[ret.id].url.scheme = "http"
    /\ inst[ret.id].url.port = inst[ret.id].port
    /\ inst[ret.id].url.host # NoHost

\* C8: the change handler of an instance refreshes lastActivity; it makes
\* exactly one restartPreview call for that instance when the file's name ends
\* in one of the extensions .js, .ts, .json, .env, and otherwise does nothing
\* else.
EndsWith(f, e) ==
  /\ Len(f) > Len(e)
  /\ SubSeq(f, Len(f) - Len(e) + 1, Len(f)) = e
  /\ f[Len(f) - Len(e)] # "/"
RestartExtension(f) ==
  \/ EndsWith(f, <<".", "j", "s">>)
  \/ EndsWith(f, <<".", "t", "s">>)
  \/ EndsWith(f, <<".", "j", "s", "o", "n">>)
  \/ EndsWith(f, <<".", "e", "n", "v">>)

Thm_C8 ==
  [][\A id \in DOMAIN inst : \A f \in ChangedFiles :
       FileChange(id, f) =>
          /\ inst'[id] = [inst[id] EXCEPT !.lastActivity = now]
          /\ IF RestartExtension(f)
             THEN IF id \in previews
                  THEN \E c \in RestartCalls(id) : calls' = Suspend(c)
                  ELSE ret' = Ret("restart", id, FALSE) /\ calls' = calls
             ELSE /\ ret' = NoRet
                  /\ UNCHANGED << calls, srv, previews, usedPorts >>]_vars

W_C8 ==
  \E id \in previews :
    /\ emitted = << Ev("fileChanged", id) >>
    /\ inst[id].lastActivity = now
    /\ \E c \in InFlight : c.op = "restart" /\ c.id = id

\* C9 as stated: whenever a restartPreview call completes, lastActivity has
\* been refreshed, and the instance is running with result true or in error
\* with result false.
CE_C9 ==
  [][\A c \in InFlight :
       (c.op = "restart" /\ Completes(c)) =>
          /\ inst'[c.id].lastActivity = now
          /\ \/ ret' = Ret("restart", c.id, TRUE) /\ inst'[c.id].status = "running"
             \/ ret' = Ret("restart", c.id, FALSE) /\ inst'[c.id].status = "error"]_vars

\* C9 amended: a restartPreview whose stop and start both succeed sets the
\* status to starting after the stop and completes with status running,
\* lastActivity refreshed and result true; one whose stop or start fails
\* completes with status error, lastActivity untouched and result false.  No
\* step of a restart changes the registry, the used-port set or the id, port
\* and url of an instance (only a registering createPreview and a successful
\* stopPreview do).  On an unknown id the call returns false and changes
\* nothing.
Thm_C9 ==
  [][/\ \A c \in InFlight :
          /\ (c.op = "restart" /\ Completes(c)) =>
                IF c.pc = "started"
                THEN /\ ret' = Ret("restart", c.id, TRUE)
                     /\ inst' = [inst EXCEPT ![c.id].status = "running",
                                             ![c.id].lastActivity = now]
                ELSE /\ c.pc \in {"stopFailed", "startFailed"}
                     /\ ret' = Ret("restart", c.id, FALSE)
                     /\ inst' = [inst EXCEPT ![c.id].status = "error"]
          /\ (c.op = "restart" /\ c.pc = "stopDone" /\ c \notin BagToSet(calls')) =>
                /\ inst' = [inst EXCEPT ![c.id].status = "starting"]
                /\ calls' = Move(c, At(c, "detect"))
     /\ (\/ usedPorts' # usedPorts
         \/ previews' # previews
         \/ \E i \in DOMAIN inst :
               \/ inst'[i].id # inst[i].id
               \/ inst'[i].port # inst[i].port
               \/ inst'[i].url # inst[i].url) =>
           \/ ret'.op = "stop" /\ ret'.result = TRUE
           \/ DOMAIN inst' # DOMAIN inst
     /\ \A id \in DOMAIN inst \cup {UnknownId} :
          (RestartPreviewCall(id) /\ id \notin previews) =>
             /\ ret' = Ret("restart", id, FALSE)
             /\ emitted' = << >>
             /\ UNCHANGED << previews, inst, usedPorts, srv, calls >>]_vars

W_C9 ==
  /\ ret.op = "restart" /\ ret.result = FALSE
  /\ ret.id \in previews
  /\ inst[ret.id].status = "error"
  /\ inst[ret.id].lastActivity < now
  /\ inst[ret.id].port \in usedPorts

\* C10: the supervisor of an instance inspects the manifest of the instance's
\* project path, so an instance that createPreview returned is classified by
\* the manifest of its own project path.
CE_C10 ==
  (ret.op = "create" /\ ret.result = "running") =>
    srv[ret.id].projectType = ProjectType(manifest[inst[ret.id].projectPath])


(***************************************************************************)
(* Claims about the supervisor.                                            *)
(***************************************************************************)
Frameworks == {"next", "vite", "react-scripts"}
FrameworkBackend(f) ==
  CASE f = "next" -> << "process", "dev" >>
    [] f = "vite" -> << "vite", "" >>
    [] f = "react-scripts" -> << "process", "start" >>
\* the backends the classification rule allows for a manifest
AllowedBackends(m) ==
  IF ~m.exists \/ ~m.valid THEN { << "http", "" >> }
  ELSE IF m.deps \cap Frameworks # {}
       THEN { FrameworkBackend(f) : f \in m.deps \cap Frameworks }
  ELSE IF m.scripts \cap {"dev", "start"} # {}
       THEN { << "process", sc >> : sc \in m.scripts \cap {"dev", "start"} }
  ELSE { << "http", "" >> }
\* the backends a supervisor brings up in this step
BroughtUp(id) ==
  (IF srv'[id].liveHttp \ srv[id].liveHttp # {} THEN { << "http", "" >> } ELSE {})
    \cup (IF srv'[id].liveVite \ srv[id].liveVite # {}
          THEN { << "vite", "" >> } ELSE {})
    \cup (IF srv'[id].liveProc \ srv[id].liveProc # {}
          THEN { << "process", srv'[id].script >> } ELSE {})

\* one more call is suspended at the position of d after this step
Arrives(d) == CopiesIn(d, calls') > CopiesIn(d, calls)

\* C11: every backend a start() brings up is the one the classification rule
\* gives for the manifest of the supervisor's working directory: the static
\* server without a manifest or with an unparsable one, the framework's
\* backend with a known framework dependency, the script runner on dev or
\* start otherwise when such a script exists, the static server otherwise; a
\* start that is to serve statically never fails and has brought the static
\* server up when it gets past the classification.
Thm_C11 ==
  [][\A id \in DOMAIN srv :
       LET m == manifest[srv[id].root]
       IN /\ BroughtUp(id) \subseteq AllowedBackends(m)
          /\ \A c \in InFlight :
               (/\ c.id = id
                /\ c.pc \in {"detect", "read"}
                /\ AllowedBackends(m) = { << "http", "" >> }) =>
                  /\ ~Arrives(At(c, "startFailed"))
                  /\ Arrives(At(c, "started")) => BroughtUp(id) # {}]_vars

W_C11 ==
  /\ ret = Ret("start", ServerId, "ok")
  /\ manifest[WorkDir] = BrokenManifest
  /\ srv[ServerId].httpServer # Null
  /\ srv[ServerId].liveHttp # {}

\* C12: when no call on a supervisor is pending and no backend it started is
\* alive any more, isRunning() is false.
CE_C12 ==
  \A id \in DOMAIN srv :
    (~Pending(id) /\ LiveBackends(id) = {}) => ~isRunning(srv[id])


(***************************************************************************)
(* Part 2: the cache store (CacheManager).  A cache is the sequence of     *)
(* its entries in insertion order, which is the order a Map iterates in.   *)
(* Times are milliseconds.  Every operation is an operator from the cache  *)
(* and the time to the cache after it, its result and what it emitted.     *)
(***************************************************************************)
NoTtl == 0          \* ttl argument absent (or 0): both are falsy

KeyIndex(c, key) ==
  IF \E i \in DOMAIN c : c[i].key = key
  THEN CHOOSE i \in DOMAIN c : c[i].key = key
  ELSE 0
Without(c, key) == SelectSeq(c, LAMBDA e : e.key # key)
\* Map.set: an existing key keeps its place, a new one goes last
MapSet(c, e) ==
  IF KeyIndex(c, e.key) # 0
  THEN [i \in DOMAIN c |-> IF c[i].key = e.key THEN e ELSE c[i]]
  ELSE Append(c, e)

Expired(e, t) == t - e.timestamp > e.ttl

\* 1000 * (entry.hits + (Date.now() - entry.timestamp) / 1000)
Score(e, t) == e.hits * 1000 + (t - e.timestamp)

\* mutant: the scan keeps the entry with the highest score
RECURSIVE OldestScan_Highest(_, _, _, _)
OldestScan_Highest(c, i, t, best) ==
  IF i > Len(c) THEN best
  ELSE OldestScan_Highest(c, i + 1, t,
         IF best.infinite \/ Score(c[i], t) > best.score
         THEN [infinite |-> FALSE, key |-> c[i].key, score |-> Score(c[i], t)]
         ELSE best)

\* the loop of evictOldest; best.infinite stands for Number.POSITIVE_INFINITY
\* and a null oldestKey
RECURSIVE OldestScan(_, _, _, _)
OldestScan(c, i, t, best) ==
  IF i > Len(c) THEN best
  ELSE OldestScan(c, i + 1, t,
         IF best.infinite \/ Score(c[i], t) < best.score
         THEN [infinite |-> FALSE, key |-> c[i].key, score |-> Score(c[i], t)]
         ELSE best)

\* `if (oldestKey)`: null and the empty string are falsy
evictOldest(c, t) ==
  LET b == OldestScan(c, 1, t, [infinite |-> TRUE, key |-> "", score |-> 0])
  IN IF ~b.infinite /\ b.key # ""
     THEN [cache |-> Without(c, b.key), events |-> << Ev("evicted", b.key) >>]
     ELSE [cache |-> c, events |-> << >>]

\* mutant: the entry is stored first and the eviction follows
CacheSet_EvictAfter(c, maxSize, defaultTTL, key, value, ttl, t) ==
  LET entry == [key |-> key, value |-> value, timestamp |-> t,
                ttl |-> IF ttl # NoTtl THEN ttl ELSE defaultTTL, hits |-> 0]
      stored == MapSet(c, entry)
      ev == IF Len(c) >= maxSize THEN evictOldest(stored, t)
            ELSE [cache |-> stored, events |-> << >>]
  IN [cache |-> ev.cache, events |-> ev.events \o << Ev("set", key) >>]

CacheSet(c, maxSize, defaultTTL, key, value, ttl, t) ==
  LET ev == IF Len(c) >= maxSize THEN evictOldest(c, t)
            ELSE [cache |-> c, events |-> << >>]
      entry == [key |-> key, value |-> value, timestamp |-> t,
                ttl |-> IF ttl # NoTtl THEN ttl ELSE defaultTTL, hits |-> 0]
  IN [cache |-> MapSet(ev.cache, entry),
      events |-> ev.events \o << Ev("set", key) >>]

\* get: defined = FALSE is the `undefined` result
CacheGet(c, key, t) ==
  LET i == KeyIndex(c, key)
  IN IF i = 0
     THEN [cache |-> c, defined |-> FALSE, value |-> "",
           events |-> << Ev("miss", key) >>]
     ELSE IF Expired(c[i], t)
     THEN [cache |-> Without(c, key), defined |-> FALSE, value |-> "",
           events |-> << Ev("expired", key) >>]
     ELSE [cache |-> [c EXCEPT ![i].hits = @ + 1], defined |-> TRUE,
           value |-> c[i].value, events |-> << Ev("hit", key) >>]

CacheHas(c, key, t) ==
  LET i == KeyIndex(c, key)
  IN IF i = 0 THEN [cache |-> c, result |-> FALSE]
     ELSE IF Expired(c[i], t) THEN [cache |-> Without(c, key), result |-> FALSE]
     ELSE [cache |-> c, result |-> TRUE]

CacheDelete(c, key) ==
  IF KeyIndex(c, key) # 0
  THEN [cache |-> Without(c, key), result |-> TRUE,
        events |-> << Ev("delete", key) >>]
  ELSE [cache |-> c, result |-> FALSE, events |-> << >>]

\* mutant: the sweep also removes an entry whose age equals its ttl
cleanup_AtTtl(c, t) ==
  LET expiredKeys == SelectSeq(c, LAMBDA e : t - e.timestamp >= e.ttl)
  IN [cache |-> SelectSeq(c, LAMBDA e : ~(t - e.timestamp >= e.ttl)),
      events |-> [i \in DOMAIN expiredKeys |-> Ev("expired", expiredKeys[i].key)]
                   \o (IF Len(expiredKeys) > 0
                       THEN << Ev("cleanup", Len(expiredKeys)) >> ELSE << >>)]

cleanup(c, t) ==
  LET expiredKeys == SelectSeq(c, LAMBDA e : Expired(e, t))
  IN [cache |-> SelectSeq(c, LAMBDA e : ~Expired(e, t)),
      events |-> [i \in DOMAIN expiredKeys |-> Ev("expired", expiredKeys[i].key)]
                   \o (IF Len(expiredKeys) > 0
                       THEN << Ev("cleanup", Len(expiredKeys)) >> ELSE << >>)]


(***************************************************************************)
(* Part 3: the file-system adapter (NodeFileSystem) and the cached layer   *)
(* above it (OptimizedFileSystem).                                         *)
(*                                                                         *)
(* Strings are sequences: a path is a sequence of characters, a content is *)
(* a sequence of UTF-16 code units, a file holds a sequence of bytes.      *)
(***************************************************************************)
IsHigh(u) == u >= 55296 /\ u <= 56319       \* D800..DBFF
IsLow(u)  == u >= 56320 /\ u <= 57343       \* DC00..DFFF
Replacement == 65533                        \* U+FFFD

\* fs.writeFile(path, content, "utf-8"): the bytes of a string
RECURSIVE Utf8Encode(_)
Utf8Encode(u) ==
  IF u = << >> THEN << >>
  ELSE LET x == Head(u)
       IN IF x < 128 THEN << x >> \o Utf8Encode(Tail(u))
          ELSE IF x < 2048
          THEN << 192 + (x \div 64), 128 + (x % 64) >> \o Utf8Encode(Tail(u))
          ELSE IF IsHigh(x) /\ Len(u) > 1 /\ IsLow(u[2])
          THEN LET cp == 65536 + (x - 55296) * 1024 + (u[2] - 56320)
               IN << 240 + (cp \div 262144), 128 + ((cp \div 4096) % 64),
                     128 + ((cp \div 64) % 64), 128 + (cp % 64) >>
                    \o Utf8Encode(Tail(Tail(u)))
          ELSE IF IsHigh(x) \/ IsLow(x)
          THEN << 239, 191, 189 >> \o Utf8Encode(Tail(u))
          ELSE << 224 + (x \div 4096), 128 + ((x \div 64) % 64), 128 + (x % 64) >>
                 \o Utf8Encode(Tail(u))

\* fs.readFile(path, "utf-8"): the string of the bytes
RECURSIVE Utf8Decode(_)
Utf8Decode(b) ==
  IF b = << >> THEN << >>
  ELSE LET x == Head(b)
       IN IF x < 128 THEN << x >> \o Utf8Decode(Tail(b))
          ELSE IF x >= 192 /\ x < 224 /\ Len(b) >= 2
          THEN << (x - 192) * 64 + (b[2] - 128) >> \o Utf8Decode(SubSeq(b, 3, Len(b)))
          ELSE IF x >= 224 /\ x < 240 /\ Len(b) >= 3
          THEN << (x - 224) * 4096 + (b[2] - 128) * 64 + (b[3] - 128) >>
                 \o Utf8Decode(SubSeq(b, 4, Len(b)))
          ELSE IF x >= 240 /\ Len(b) >= 4
          THEN LET cp == (x - 240) * 262144 + (b[2] - 128) * 4096
                           + (b[3] - 128) * 64 + (b[4] - 128)
               IN << 55296 + ((cp - 65536) \div 1024), 56320 + ((cp - 65536) % 1024) >>
                    \o Utf8Decode(SubSeq(b, 5, Len(b)))
          ELSE << Replacement >> \o Utf8Decode(Tail(b))

\* path.resolve on posix paths: split at "/", drop "" and ".", let ".." drop
\* the segment before it, join below the root directory
RECURSIVE SplitPath(_, _, _)
SplitPath(str, i, cur) ==
  IF i > Len(str) THEN (IF cur = << >> THEN << >> ELSE << cur >>)
  ELSE IF str[i] = "/"
       THEN (IF cur = << >> THEN << >> ELSE << cur >>) \o SplitPath(str, i + 1, << >>)
       ELSE SplitPath(str, i + 1, Append(cur, str[i]))

RECURSIVE NormalizeSegments(_, _)
NormalizeSegments(segs, acc) ==
  IF segs = << >> THEN acc
  ELSE LET sg == Head(segs)
       IN IF sg = << "." >> THEN NormalizeSegments(Tail(segs), acc)
          ELSE IF sg = << ".", "." >>
          THEN NormalizeSegments(Tail(segs),
                 IF acc = << >> THEN acc ELSE SubSeq(acc, 1, Len(acc) - 1))
          ELSE NormalizeSegments(Tail(segs), Append(acc, sg))

RECURSIVE JoinPath(_)
JoinPath(segs) ==
  IF segs = << >> THEN << >> ELSE << "/" >> \o Head(segs) \o JoinPath(Tail(segs))

PathOf(segs) == IF segs = << >> THEN << "/" >> ELSE JoinPath(segs)

resolve(base, filePath) ==
  LET whole == IF filePath # << >> /\ filePath[1] = "/" THEN filePath
               ELSE base \o << "/" >> \o filePath
  IN PathOf(NormalizeSegments(SplitPath(whole, 1, << >>), << >>))

dirname(full) ==
  LET segs == SplitPath(full, 1, << >>)
  IN IF segs = << >> THEN << "/" >> ELSE PathOf(SubSeq(segs, 1, Len(segs) - 1))

startsWith(str, prefix) ==
  Len(str) >= Len(prefix) /\ SubSeq(str, 1, Len(prefix)) = prefix

BasePath == << "/", "r", "/", "w" >>     \* this.basePath, already resolved

\* resolvePath: inside = FALSE is the thrown "outside of allowed directory"
resolvePath(filePath) ==
  LET resolved == resolve(BasePath, filePath)
  IN [inside |-> startsWith(resolved, BasePath), full |-> resolved]

MaxFsTicks == 2     \* steps of the clock in a behaviour of the file system
FsTickMs == 30001   \* milliseconds one step of the clock takes

FileCacheMax  == 500       \* new CacheManager<string>(500, 60000)
FileCacheTTL  == 60000
StatsCacheMax == 1000      \* new CacheManager<FileStats>(1000, 30000)
StatsCacheTTL == 30000

\* filePath arguments: a, ./a, ../wx/s (a sibling of the root whose name
\* starts with the root's name) and ../x (outside the root)
FilePaths ==
  { << "a" >>, << ".", "/", "a" >>,
    << ".", ".", "/", "w", "x", "/", "s" >>,
    << ".", ".", "/", "x" >> }
\* content arguments: "", e-acute followed by an emoji (a surrogate pair),
\* and "a" followed by an unpaired high surrogate
Contents == { << >>, << 233, 55357, 56832 >>, << 97, 55296 >> }

DirNode == [kind |-> "dir", bytes |-> << >>]
FileNode(bytes) == [kind |-> "file", bytes |-> bytes]
InitialDisk ==
  (<< "/" >> :> DirNode) @@ (<< "/", "r" >> :> DirNode)
    @@ (BasePath :> DirNode) @@ (<< "/", "r", "/", "w", "x" >> :> DirNode)
    @@ (<< "/", "r", "/", "w", "x", "/", "s" >> :> FileNode(<< 83 >>))

IsDirectory(d, q) == q \in DOMAIN d /\ d[q].kind = "dir"
IsFile(d, q) == q \in DOMAIN d /\ d[q].kind = "file"
Restrict(d, S) == [q \in S |-> d[q]]
\* q and the directories above it
Lineage(q) ==
  LET segs == SplitPath(q, 1, << >>)
  IN { PathOf(SubSeq(segs, 1, k)) : k \in 0 .. Len(segs) }
\* q and everything below it
Under(d, q) == { x \in DOMAIN d : x = q \/ startsWith(x, q \o << "/" >>) }
\* fs.mkdir(dir, {recursive: true})
MkdirPOk(d, dir) == \A q \in Lineage(dir) : ~IsFile(d, q)
MkdirP(d, dir) == [q \in Lineage(dir) \ DOMAIN d |-> DirNode] @@ d
\* fs.stat as the adapter's stat() returns it: kind and size
StatOf(d, q) == [kind |-> d[q].kind, size |-> Len(d[q].bytes)]

FsOk(value) == [ok |-> TRUE, value |-> value, error |-> ""]
FsErr(error) == [ok |-> FALSE, value |-> << >>, error |-> error]

\* resolvePath of every argument (evaluated once)
Resolved == [q \in FilePaths |-> resolvePath(q)]
SameFile(p, q) == Resolved[p].full = Resolved[q].full

\* A suspended file-system call: its arguments, the await it is suspended
\* at, what the awaited operation yielded (data) and, for the claims,
\* whether no other call on the same file has run beside it (alone).
FsCall(op, path, pc, content, data, alone) ==
  [op |-> op, path |-> path, pc |-> pc, content |-> content, data |-> data,
   alone |-> alone]
FsInFlight == BagToSet(fsCalls)
Overlapped(path) ==
  BagOfAll(LAMBDA c : IF SameFile(c.path, path) THEN [c EXCEPT !.alone = FALSE] ELSE c,
           fsCalls)
FsSuspend(op, path, pc, content) ==
  Overlapped(path)
    (+) SetToBag({ FsCall(op, path, pc, content, << >>,
                          \A c \in FsInFlight : ~SameFile(c.path, path)) })
FsMove(c, d) == (fsCalls (-) SetToBag({c})) (+) SetToBag({d})
FsResume(c) == fsCalls (-) SetToBag({c})

\* history of a path: fresh, content, at describe a writeFile(p, c) that
\* ran alone; last, lcontent, via describe the last writeFile or remove
\* completed on the file of the path, under whichever spelling (via),
\* when no other call changing the file ran beside it ("mixed" while
\* such calls overlap)
NoWrite == [fresh |-> FALSE, content |-> << >>, at |-> 0,
            last |-> "none", lcontent |-> << >>, via |-> << >>]
Mutating == {"writeFile", "remove", "mkdir"}
\* no other call that changes the file of c is under way
Settled(c) ==
  /\ CopiesIn(c, fsCalls) = 1
  /\ \A d \in FsInFlight :
       (d # c /\ SameFile(d.path, c.path)) => d.op \notin Mutating
\* the writeFile or remove c completes
Completed(h, c, kind) ==
  [q \in DOMAIN h |->
     IF SameFile(q, c.path)
     THEN IF ~Settled(c)
          THEN [h[q] EXCEPT !.last = "mixed", !.lcontent = << >>,
                            !.via = << >>]
          ELSE IF h[q].last = "mixed"
          THEN [h[q] EXCEPT !.last = "none", !.lcontent = << >>,
                            !.via = << >>]
          ELSE [h[q] EXCEPT !.last = kind, !.lcontent = c.content,
                            !.via = c.path]
     ELSE h[q]]
\* another operation on the file of path begins
Disturbed(path) ==
  [q \in DOMAIN hist |->
     IF SameFile(q, path)
     THEN [hist[q] EXCEPT !.fresh = FALSE, !.content = << >>, !.at = 0]
     ELSE hist[q]]
\* an operation that changes the file of path begins
Mutated(path) ==
  [q \in DOMAIN hist |->
     IF SameFile(q, path)
     THEN IF \E d \in FsInFlight : SameFile(d.path, path) /\ d.op \in Mutating
          THEN [NoWrite EXCEPT !.last = "mixed"]
          ELSE NoWrite
     ELSE hist[q]]

pvIdle == << previews, inst, usedPorts, srv, calls, watcher, processEnv,
             manifest, externalBusy, nextId, alloc, stopMidStart, termVars,
             streamVars, treeVars >>

FsInit ==
  /\ previews = {}
  /\ inst = << >>
  /\ usedPorts = {}
  /\ srv = << >>
  /\ calls = EmptyBag
  /\ watcher = << >>
  /\ processEnv = [k \in EnvNames |-> "unset"]
  /\ manifest = RootOnly(NoManifest)
  /\ externalBusy = {}
  /\ now = 0
  /\ nextId = 1
  /\ ncalls = 0
  /\ emitted = << >>
  /\ ret = NoRet
  /\ alloc = {}
  /\ stopMidStart = {}
  /\ cache = << >>
  /\ statsCache = << >>
  /\ disk = InitialDisk
  /\ fsCalls = EmptyBag
  /\ hist = [q \in FilePaths |-> NoWrite]
  /\ TermIdle
  /\ StreamIdle
  /\ TreeIdle

\* a call begins: what every entry point shares
FsEnter == BagCardinality(fsCalls) < MaxInFlight /\ Counted
\* the step returns result to the caller of op(path), or returns nothing
FsReturn(op, path, result) == ret' = Ret(op, path, result) /\ emitted' = << >>
FsQuiet == ret' = NoRet /\ emitted' = << >>

\* OptimizedFileSystem.readFile up to `await super.readFile(filePath)`
FsReadFileCall(filePath) ==
  /\ FsEnter
  /\ LET r == CacheGet(cache, filePath, now)
     IN /\ cache' = r.cache
        /\ IF r.defined
           THEN /\ FsReturn("readFile", filePath, FsOk(r.value))
                /\ fsCalls' = Overlapped(filePath)
           ELSE IF ~Resolved[filePath].inside
           THEN /\ FsReturn("readFile", filePath, FsErr("outOfBounds"))
                /\ fsCalls' = Overlapped(filePath)
           ELSE /\ FsQuiet
                /\ fsCalls' = FsSuspend("readFile", filePath, "read", << >>)
  /\ hist' = [q \in DOMAIN hist |->
                IF SameFile(q, filePath) /\ q # filePath
                THEN [hist[q] EXCEPT !.fresh = FALSE, !.content = << >>,
                                     !.at = 0]
                ELSE hist[q]]
  /\ UNCHANGED << statsCache, disk, now >> /\ UNCHANGED pvIdle

\* fs.readFile(fullPath, "utf-8") is carried out
FsReadFileDisk(c) ==
  /\ c.op = "readFile" /\ c.pc = "read"
  /\ LET full == Resolved[c.path].full
     IN IF IsFile(disk, full)
        THEN /\ fsCalls' = FsMove(c, [c EXCEPT !.pc = "readDone",
                                               !.data = Utf8Decode(disk[full].bytes)])
             /\ FsQuiet
        ELSE /\ fsCalls' = FsResume(c)
             /\ FsReturn("readFile", c.path, FsErr("io"))
  /\ UNCHANGED << cache, statsCache, disk, hist, now, ncalls >>
  /\ UNCHANGED pvIdle

\* readFile resumes with the content: this.cache.set(filePath, content)
FsReadFileDone(c) ==
  /\ c.op = "readFile" /\ c.pc = "readDone"
  /\ cache' = CacheSet(cache, FileCacheMax, FileCacheTTL, c.path, c.data,
                       NoTtl, now).cache
  /\ fsCalls' = FsResume(c)
  /\ FsReturn("readFile", c.path, FsOk(c.data))
  /\ UNCHANGED << statsCache, disk, hist, now, ncalls >>
  /\ UNCHANGED pvIdle

\* OptimizedFileSystem.writeFile up to `await fs.mkdir(dir, ...)`
FsWriteFileCall(filePath, content) ==
  /\ FsEnter
  /\ IF ~Resolved[filePath].inside
     THEN /\ FsReturn("writeFile", filePath, FsErr("outOfBounds"))
          /\ fsCalls' = Overlapped(filePath)
     ELSE /\ FsQuiet
          /\ fsCalls' = FsSuspend("writeFile", filePath, "mkdir", content)
  /\ hist' = Mutated(filePath)
  /\ UNCHANGED << cache, statsCache, disk, now >> /\ UNCHANGED pvIdle

\* fs.mkdir(dir, { recursive: true }) is carried out
FsWriteFileMkdir(c) ==
  /\ c.op = "writeFile" /\ c.pc = "mkdir"
  /\ LET dir == dirname(Resolved[c.path].full)
     IN IF MkdirPOk(disk, dir)
        THEN /\ disk' = MkdirP(disk, dir)
             /\ fsCalls' = FsMove(c, [c EXCEPT !.pc = "write"])
             /\ FsQuiet
        ELSE /\ disk' = disk
             /\ fsCalls' = FsResume(c)
             /\ FsReturn("writeFile", c.path, FsErr("io"))
  /\ UNCHANGED << cache, statsCache, hist, now, ncalls >>
  /\ UNCHANGED pvIdle

\* fs.writeFile(fullPath, content, "utf-8") is carried out
FsWriteFileDisk(c) ==
  /\ c.op = "writeFile" /\ c.pc = "write"
  /\ LET full == Resolved[c.path].full
     IN IF ~IsDirectory(disk, full) /\ IsDirectory(disk, dirname(full))
        THEN /\ disk' = (full :> FileNode(Utf8Encode(c.content))) @@ disk
             /\ fsCalls' = FsMove(c, [c EXCEPT !.pc = "written"])
             /\ FsQuiet
        ELSE /\ disk' = disk
             /\ fsCalls' = FsResume(c)
             /\ FsReturn("writeFile", c.path, FsErr("io"))
  /\ UNCHANGED << cache, statsCache, hist, now, ncalls >>
  /\ UNCHANGED pvIdle

\* mutant: the content cache is not updated by a write
FsWriteFileDone_KeepsCache(c) ==
  /\ c.op = "writeFile" /\ c.pc = "written"
  /\ cache' = cache
  /\ statsCache' = CacheDelete(statsCache, c.path).cache
  /\ fsCalls' = FsResume(c)
  /\ FsReturn("writeFile", c.path, FsOk(<< >>))
  /\ hist' = Completed([hist EXCEPT ![c.path] =
                          IF c.alone
                          THEN [NoWrite EXCEPT !.fresh = TRUE,
                                               !.content = c.content,
                                               !.at = now]
                          ELSE NoWrite], c, "write")
  /\ UNCHANGED << disk, now, ncalls >>
  /\ UNCHANGED pvIdle

\* writeFile resumes: cache.set(filePath, content), statsCache.delete(filePath)
FsWriteFileDone(c) ==
  /\ c.op = "writeFile" /\ c.pc = "written"
  /\ cache' = CacheSet(cache, FileCacheMax, FileCacheTTL, c.path, c.content,
                       NoTtl, now).cache
  /\ statsCache' = CacheDelete(statsCache, c.path).cache
  /\ fsCalls' = FsResume(c)
  /\ FsReturn("writeFile", c.path, FsOk(<< >>))
  /\ hist' = Completed([hist EXCEPT ![c.path] =
                          IF c.alone
                          THEN [NoWrite EXCEPT !.fresh = TRUE,
                                               !.content = c.content,
                                               !.at = now]
                          ELSE NoWrite], c, "write")
  /\ UNCHANGED << disk, now, ncalls >>
  /\ UNCHANGED pvIdle

\* OptimizedFileSystem.stat up to `await fs.stat(fullPath)`
FsStatCall(filePath) ==
  /\ FsEnter
  /\ LET r == CacheGet(statsCache, filePath, now)
     IN /\ statsCache' = r.cache
        /\ IF r.defined
           THEN /\ FsReturn("stat", filePath, FsOk(r.value))
                /\ fsCalls' = Overlapped(filePath)
           ELSE IF ~Resolved[filePath].inside
           THEN /\ FsReturn("stat", filePath, FsErr("outOfBounds"))
                /\ fsCalls' = Overlapped(filePath)
           ELSE /\ FsQuiet
                /\ fsCalls' = FsSuspend("stat", filePath, "stat", << >>)
  /\ hist' = Disturbed(filePath)
  /\ UNCHANGED << cache, disk, now >> /\ UNCHANGED pvIdle

\* fs.stat(fullPath) is carried out
FsStatDisk(c) ==
  /\ c.op = "stat" /\ c.pc = "stat"
  /\ LET full == Resolved[c.path].full
     IN IF full \in DOMAIN disk
        THEN /\ fsCalls' = FsMove(c, [c EXCEPT !.pc = "statDone",
                                               !.data = StatOf(disk, full)])
             /\ FsQuiet
        ELSE /\ fsCalls' = FsResume(c)
             /\ FsReturn("stat", c.path, FsErr("io"))
  /\ UNCHANGED << cache, statsCache, disk, hist, now, ncalls >>
  /\ UNCHANGED pvIdle

\* stat resumes with the stats: this.statsCache.set(filePath, stats)
FsStatDone(c) ==
  /\ c.op = "stat" /\ c.pc = "statDone"
  /\ statsCache' = CacheSet(statsCache, StatsCacheMax, StatsCacheTTL, c.path,
                            c.data, NoTtl, now).cache
  /\ fsCalls' = FsResume(c)
  /\ FsReturn("stat", c.path, FsOk(c.data))
  /\ UNCHANGED << cache, disk, hist, now, ncalls >>
  /\ UNCHANGED pvIdle

\* OptimizedFileSystem.remove up to `await fs.stat(fullPath)`
FsRemoveCall(filePath) ==
  /\ FsEnter
  /\ IF ~Resolved[filePath].inside
     THEN /\ FsReturn("remove", filePath, FsErr("outOfBounds"))
          /\ fsCalls' = Overlapped(filePath)
     ELSE /\ FsQuiet
          /\ fsCalls' = FsSuspend("remove", filePath, "rmStat", << >>)
  /\ hist' = Mutated(filePath)
  /\ UNCHANGED << cache, statsCache, disk, now >> /\ UNCHANGED pvIdle

\* remove: fs.stat(fullPath) is carried out
FsRemoveStat(c) ==
  /\ c.op = "remove" /\ c.pc = "rmStat"
  /\ LET full == Resolved[c.path].full
     IN IF full \in DOMAIN disk
        THEN /\ fsCalls' = FsMove(c, [c EXCEPT !.pc = "rm", !.data = disk[full].kind])
             /\ FsQuiet
        ELSE /\ fsCalls' = FsResume(c)
             /\ FsReturn("remove", c.path, FsErr("io"))
  /\ UNCHANGED << cache, statsCache, disk, hist, now, ncalls >>
  /\ UNCHANGED pvIdle

\* remove: fs.rmdir(fullPath, { recursive: true }) or fs.unlink(fullPath)
FsRemoveDisk(c) ==
  /\ c.op = "remove" /\ c.pc = "rm"
  /\ LET full == Resolved[c.path].full
         gone == IF c.data = "dir" THEN Under(disk, full) ELSE {full}
     IN IF (c.data = "dir" /\ IsDirectory(disk, full))
             \/ (c.data = "file" /\ IsFile(disk, full))
        THEN /\ disk' = Restrict(disk, DOMAIN disk \ gone)
             /\ fsCalls' = FsMove(c, [c EXCEPT !.pc = "removed"])
             /\ FsQuiet
        ELSE /\ disk' = disk
             /\ fsCalls' = FsResume(c)
             /\ FsReturn("remove", c.path, FsErr("io"))
  /\ UNCHANGED << cache, statsCache, hist, now, ncalls >>
  /\ UNCHANGED pvIdle

\* a remove that leaves the metadata cache as it is
FsRemoveDone_KeepsStats(c) ==
  /\ c.op = "remove" /\ c.pc = "removed"
  /\ cache' = CacheDelete(cache, c.path).cache
  /\ statsCache' = statsCache
  /\ fsCalls' = FsResume(c)
  /\ FsReturn("remove", c.path, FsOk(<< >>))
  /\ hist' = Completed(hist, c, "remove")
  /\ UNCHANGED << disk, now, ncalls >>
  /\ UNCHANGED pvIdle

\* remove resumes: cache.delete(filePath), statsCache.delete(filePath)
FsRemoveDone(c) ==
  /\ c.op = "remove" /\ c.pc = "removed"
  /\ cache' = CacheDelete(cache, c.path).cache
  /\ statsCache' = CacheDelete(statsCache, c.path).cache
  /\ fsCalls' = FsResume(c)
  /\ FsReturn("remove", c.path, FsOk(<< >>))
  /\ hist' = Completed(hist, c, "remove")
  /\ UNCHANGED << disk, now, ncalls >>
  /\ UNCHANGED pvIdle

\* NodeFileSystem.exists up to `await fs.access(fullPath)`; the error of
\* resolvePath is caught and gives false
FsExistsCall(filePath) ==
  /\ FsEnter
  /\ IF ~Resolved[filePath].inside
     THEN /\ FsReturn("exists", filePath, FsOk(FALSE))
          /\ fsCalls' = Overlapped(filePath)
     ELSE /\ FsQuiet
          /\ fsCalls' = FsSuspend("exists", filePath, "access", << >>)
  /\ hist' = Disturbed(filePath)
  /\ UNCHANGED << cache, statsCache, disk, now >> /\ UNCHANGED pvIdle

\* exists: fs.access(fullPath) is carried out
FsExistsDisk(c) ==
  /\ c.op = "exists" /\ c.pc = "access"
  /\ fsCalls' = FsResume(c)
  /\ FsReturn("exists", c.path, FsOk(Resolved[c.path].full \in DOMAIN disk))
  /\ UNCHANGED << cache, statsCache, disk, hist, now, ncalls >>
  /\ UNCHANGED pvIdle

\* NodeFileSystem.readdir up to `await fs.readdir(fullPath)`
FsReaddirCall(dirPath) ==
  /\ FsEnter
  /\ IF ~Resolved[dirPath].inside
     THEN /\ FsReturn("readdir", dirPath, FsErr("outOfBounds"))
          /\ fsCalls' = Overlapped(dirPath)
     ELSE /\ FsQuiet
          /\ fsCalls' = FsSuspend("readdir", dirPath, "readdir", << >>)
  /\ hist' = Disturbed(dirPath)
  /\ UNCHANGED << cache, statsCache, disk, now >> /\ UNCHANGED pvIdle

\* readdir: fs.readdir(fullPath) is carried out
FsReaddirDisk(c) ==
  /\ c.op = "readdir" /\ c.pc = "readdir"
  /\ fsCalls' = FsResume(c)
  /\ LET full == Resolved[c.path].full
     IN IF IsDirectory(disk, full)
        THEN FsReturn("readdir", c.path,
                      FsOk({ q \in DOMAIN disk : q # full /\ dirname(q) = full }))
        ELSE FsReturn("readdir", c.path, FsErr("io"))
  /\ UNCHANGED << cache, statsCache, disk, hist, now, ncalls >>
  /\ UNCHANGED pvIdle

\* NodeFileSystem.mkdir up to `await fs.mkdir(fullPath, options)`
FsMkdirCall(dirPath, recursive) ==
  /\ FsEnter
  /\ IF ~Resolved[dirPath].inside
     THEN /\ FsReturn("mkdir", dirPath, FsErr("outOfBounds"))
          /\ fsCalls' = Overlapped(dirPath)
     ELSE /\ FsQuiet
          /\ fsCalls' = FsSuspend("mkdir", dirPath, "mkdirOp", recursive)
  /\ hist' = Mutated(dirPath)
  /\ UNCHANGED << cache, statsCache, disk, now >> /\ UNCHANGED pvIdle

\* mkdir: fs.mkdir(fullPath, options) is carried out
FsMkdirDisk(c) ==
  /\ c.op = "mkdir" /\ c.pc = "mkdirOp"
  /\ fsCalls' = FsResume(c)
  /\ LET full == Resolved[c.path].full
     IN IF c.content
        THEN IF MkdirPOk(disk, full)
             THEN /\ disk' = MkdirP(disk, full)
                  /\ FsReturn("mkdir", c.path, FsOk(<< >>))
             ELSE /\ disk' = disk
                  /\ FsReturn("mkdir", c.path, FsErr("io"))
        ELSE IF full \notin DOMAIN disk /\ IsDirectory(disk, dirname(full))
             THEN /\ disk' = (full :> DirNode) @@ disk
                  /\ FsReturn("mkdir", c.path, FsOk(<< >>))
             ELSE /\ disk' = disk
                  /\ FsReturn("mkdir", c.path, FsErr("io"))
  /\ UNCHANGED << cache, statsCache, hist, now, ncalls >>
  /\ UNCHANGED pvIdle

\* the interval timer of one of the two caches fires: cleanup()
FsSweep(content) ==
  /\ IF content
     THEN cache' = cleanup(cache, now).cache /\ statsCache' = statsCache
     ELSE statsCache' = cleanup(statsCache, now).cache /\ cache' = cache
  /\ << cache', statsCache' >> # << cache, statsCache >>
  /\ FsQuiet
  /\ UNCHANGED << disk, fsCalls, hist, now, ncalls >>
  /\ UNCHANGED pvIdle

\* time passes
FsTick ==
  /\ now < MaxFsTicks * FsTickMs
  /\ now' = now + FsTickMs
  /\ FsQuiet
  /\ UNCHANGED << cache, statsCache, disk, fsCalls, hist, ncalls >>
  /\ UNCHANGED pvIdle

FsNext ==
  \/ \E q \in FilePaths : FsReadFileCall(q)
  \/ \E c \in FsInFlight : FsReadFileDisk(c)
  \/ \E c \in FsInFlight : FsReadFileDone(c)
  \/ \E q \in FilePaths, content \in Contents : FsWriteFileCall(q, content)
  \/ \E c \in FsInFlight : FsWriteFileMkdir(c)
  \/ \E c \in FsInFlight : FsWriteFileDisk(c)
  \/ \E c \in FsInFlight : FsWriteFileDone(c)
  \/ \E q \in FilePaths : FsStatCall(q)
  \/ \E c \in FsInFlight : FsStatDisk(c)
  \/ \E c \in FsInFlight : FsStatDone(c)
  \/ \E q \in FilePaths : FsRemoveCall(q)
  \/ \E c \in FsInFlight : FsRemoveStat(c)
  \/ \E c \in FsInFlight : FsRemoveDisk(c)
  \/ \E c \in FsInFlight : FsRemoveDone(c)
  \/ \E q \in FilePaths : FsExistsCall(q)
  \/ \E c \in FsInFlight : FsExistsDisk(c)
  \/ \E q \in FilePaths : FsReaddirCall(q)
  \/ \E c \in FsInFlight : FsReaddirDisk(c)
  \/ \E q \in FilePaths, recursive \in BOOLEAN : FsMkdirCall(q, recursive)
  \/ \E c \in FsInFlight : FsMkdirDisk(c)
  \/ \E content \in BOOLEAN : FsSweep(content)
  \/ FsTick

SpecFs == FsInit /\ [][FsNext]_vars


(***************************************************************************)
(* Claims about the cached file-system layer.                              *)
(***************************************************************************)
\* a string without unpaired surrogates
RECURSIVE WellFormed(_)
WellFormed(u) ==
  IF u = << >> THEN TRUE
  ELSE IF IsHigh(Head(u))
       THEN Len(u) > 1 /\ IsLow(u[2]) /\ WellFormed(Tail(Tail(u)))
       ELSE ~IsLow(Head(u)) /\ WellFormed(Tail(u))

\* hist[p].fresh: a writeFile(p, c) has completed, no other call on the file
\* of p ran beside it and none has begun since, except readFile(p)

\* C13 as stated: a readFile(p) that follows a writeFile(p, c), with no other
\* operation on p in between, returns c, for every content c.
CE_C13 ==
  (ret.op = "readFile" /\ hist[ret.id].fresh) =>
     ret.result = FsOk(hist[ret.id].content)

\* C13 amended: a readFile(p) that follows a writeFile(p, c), with no other
\* operation on the file in between or beside the write, returns c when c
\* has no unpaired surrogate (the empty string included), from the content
\* cache as well as from the file system; when c has an unpaired surrogate
\* it returns c from the cache and c with U+FFFD in the place of each
\* unpaired surrogate from the file system.
Thm_C13 ==
  (ret.op = "readFile" /\ hist[ret.id].fresh) =>
     LET c == hist[ret.id].content
     IN IF WellFormed(c) \/ now - hist[ret.id].at <= FileCacheTTL
        THEN ret.result = FsOk(c)
        ELSE ret.result = FsOk(Utf8Decode(Utf8Encode(c)))

W_C13 ==
  /\ ret.op = "readFile"
  /\ hist[ret.id].fresh
  /\ hist[ret.id].content = << 233, 55357, 56832 >>
  /\ now - hist[ret.id].at > FileCacheTTL
  /\ ret.result = FsOk(<< 233, 55357, 56832 >>)

\* the root or a descendant of it
InsideRoot(q) == q = BasePath \/ startsWith(q, BasePath \o << "/" >>)

\* C14: a readFile, writeFile, readdir, mkdir, remove or stat whose path
\* resolves to a location that is neither the root nor below it fails with the
\* out-of-bounds error, and nothing outside the root is created, changed or
\* removed.
CE_C14 ==
  /\ (/\ ret.op \in {"readFile", "writeFile", "readdir", "mkdir", "remove", "stat"}
      /\ ~InsideRoot(Resolved[ret.id].full))
        => ret.result = FsErr("outOfBounds")
  /\ \A q \in DOMAIN disk \cup DOMAIN InitialDisk :
       ~InsideRoot(q) =>
          /\ q \in DOMAIN disk /\ q \in DOMAIN InitialDisk
          /\ disk[q] = InitialDisk[q]


(***************************************************************************)
(* Part 4: one CacheManager driven through its interface, with its sweep   *)
(* timer.                                                                  *)
(***************************************************************************)
CacheMaxSize    == 2      \* maxSize given to the constructor
CacheDefaultTTL == 1000   \* defaultTTL given to the constructor
MaxCacheOps     == 4      \* calls of a behaviour
MaxCacheTicks   == 3      \* steps of the clock
CacheTickMs     == 500    \* milliseconds one step of the clock takes
MaxHits         == 2      \* hits counted per entry

CacheKeys   == {"", "a", "b"}
CacheValues == {"v", "w"}
CacheTtls   == {NoTtl, 500}

\* history: the last set, until another call than a get of its key follows
NoSet == [valid |-> FALSE, key |-> "", value |-> "", ttl |-> 0, at |-> 0,
          evicted |-> FALSE, read |-> FALSE]

CacheInit ==
  /\ previews = {}
  /\ inst = << >>
  /\ usedPorts = {}
  /\ srv = << >>
  /\ calls = EmptyBag
  /\ watcher = << >>
  /\ processEnv = [k \in EnvNames |-> "unset"]
  /\ manifest = RootOnly(NoManifest)
  /\ externalBusy = {}
  /\ now = 0
  /\ nextId = 1
  /\ ncalls = 0
  /\ emitted = << >>
  /\ ret = NoRet
  /\ alloc = {}
  /\ stopMidStart = {}
  /\ cache = << >>
  /\ statsCache = << >>
  /\ disk = << >>
  /\ fsCalls = EmptyBag
  /\ hist = NoSet
  /\ TermIdle
  /\ StreamIdle
  /\ TreeIdle

CacheCounted == ncalls < MaxCacheOps /\ ncalls' = ncalls + 1
CacheFrame == UNCHANGED << statsCache, disk, fsCalls >> /\ UNCHANGED pvIdle

CacheSetOp(key, value, ttl) ==
  /\ CacheCounted
  /\ LET r == CacheSet(cache, CacheMaxSize, CacheDefaultTTL, key, value, ttl, now)
     IN /\ cache' = r.cache
        /\ emitted' = r.events
        /\ hist' = [valid |-> TRUE, key |-> key, value |-> value, ttl |-> ttl,
                    at |-> now, evicted |-> Len(r.events) > 1, read |-> FALSE]
  /\ ret' = Ret("set", key, "void")
  /\ now' = now /\ CacheFrame

CacheGetOp(key) ==
  /\ CacheCounted
  /\ KeyIndex(cache, key) # 0 => cache[KeyIndex(cache, key)].hits < MaxHits
  /\ LET r == CacheGet(cache, key, now)
     IN /\ cache' = r.cache
        /\ emitted' = r.events
        /\ ret' = Ret("get", key, [defined |-> r.defined, value |-> r.value])
  /\ hist' = IF hist.valid /\ hist.key = key /\ ~hist.read
             THEN [hist EXCEPT !.read = TRUE] ELSE NoSet
  /\ now' = now /\ CacheFrame

CacheHasOp(key) ==
  /\ CacheCounted
  /\ LET r == CacheHas(cache, key, now)
     IN cache' = r.cache /\ ret' = Ret("has", key, r.result)
  /\ emitted' = << >>
  /\ hist' = NoSet
  /\ now' = now /\ CacheFrame

CacheDeleteOp(key) ==
  /\ CacheCounted
  /\ LET r == CacheDelete(cache, key)
     IN cache' = r.cache /\ ret' = Ret("delete", key, r.result) /\ emitted' = r.events
  /\ hist' = NoSet
  /\ now' = now /\ CacheFrame

CacheClearOp ==
  /\ CacheCounted
  /\ cache' = << >>
  /\ emitted' = << Ev("clear", "") >>
  /\ ret' = Ret("clear", "", "void")
  /\ hist' = NoSet
  /\ now' = now /\ CacheFrame

\* the interval timer fires: cleanup()
CacheSweep ==
  /\ cache # << >>
  /\ LET r == cleanup(cache, now)
     IN cache' = r.cache /\ emitted' = r.events
  /\ ret' = Ret("cleanup", "", "void")
  /\ hist' = NoSet
  /\ UNCHANGED << now, ncalls >> /\ CacheFrame

\* time passes
CacheTick ==
  /\ now < MaxCacheTicks * CacheTickMs
  /\ now' = now + CacheTickMs
  /\ emitted' = << >> /\ ret' = NoRet
  /\ UNCHANGED << cache, hist, ncalls >> /\ CacheFrame

CacheNext ==
  \/ \E key \in CacheKeys, value \in CacheValues, ttl \in CacheTtls :
        CacheSetOp(key, value, ttl)
  \/ \E key \in CacheKeys : CacheGetOp(key)
  \/ \E key \in CacheKeys : CacheHasOp(key)
  \/ \E key \in CacheKeys : CacheDeleteOp(key)
  \/ CacheClearOp
  \/ CacheSweep
  \/ CacheTick

SpecCache == CacheInit /\ [][CacheNext]_vars


(***************************************************************************)
(* Claims about the cache store.                                           *)
(***************************************************************************)
\* C15: a get(key) that directly follows set(key, value, ttl) with a positive
\* ttl, before more than ttl milliseconds have passed, returns value, also
\* when the set evicted an entry.
Thm_C15 ==
  (/\ ret.op = "get"
   /\ hist.valid /\ hist.read
   /\ hist.ttl > 0
   /\ now - hist.at <= hist.ttl)
     => ret.result = [defined |-> TRUE, value |-> hist.value]

W_C15 ==
  /\ ret.op = "get"
  /\ hist.valid /\ hist.read /\ hist.evicted
  /\ hist.ttl > 0
  /\ now > hist.at
  /\ ret.result = [defined |-> TRUE, value |-> hist.value]

\* C16: for an entry that is stored, get, has and the sweep agree: when its
\* age exceeds its ttl, get returns nothing, has returns false, and each of
\* the three removes it; when its age is at most its ttl, get returns its
\* value, has returns true, and none of the three removes it.
Thm_C16 ==
  [][\A key \in CacheKeys :
       KeyIndex(cache, key) # 0 =>
         LET e == cache[KeyIndex(cache, key)]
             old == now - e.timestamp > e.ttl
             kept == \E j \in DOMAIN cache' : cache'[j].key = key
         IN /\ (ret'.op = "get" /\ ret'.id = key) =>
                  /\ kept = ~old
                  /\ ret'.result = IF old THEN [defined |-> FALSE, value |-> ""]
                                   ELSE [defined |-> TRUE, value |-> e.value]
            /\ (ret'.op = "has" /\ ret'.id = key) =>
                  /\ kept = ~old
                  /\ ret'.result = ~old
            /\ (ret'.op = "cleanup") => kept = ~old]_vars

W_C16 ==
  /\ ret.op = "cleanup"
  /\ Len(cache) = 1
  /\ now - cache[1].timestamp = cache[1].ttl
  /\ emitted = << Ev("expired", "a"), Ev("cleanup", 1) >>

CE_C18 == Len(cache) <= CacheMaxSize

\* ---------------------------------------------------------------------
\* Part 5: the terminal multiplexer (TerminalManager over NodeTerminal)
\* ---------------------------------------------------------------------

MaxTermOps  == 3     \* manager calls per behaviour
MaxSessions == 2     \* session objects created per behaviour
MaxProcs    == 2     \* child processes spawned per behaviour
MaxPids     == 2     \* process ids the host hands out: 1..MaxPids

NoPid   == 0         \* childProcess.pid of a child that never started
SessionIds   == {"s1", "s2"}
GeneratedId  == "terminal_0"          \* what generateSessionId returns
NoSessionId  == ""                    \* createSession() without argument
Pids         == 1 .. MaxPids
WorkingDirectory == "/w"              \* the manager's workingDirectory
HomeDir          == "/home"           \* process.env.HOME
HostDirs     == {"/w", "/home", "/tmp", "/w/sub"}
HostFiles    == {"/etc/hosts"}
NoArg        == ""                    \* args = []
RelativeArgs == {"sub"}
CdArgs       == {NoArg, "/tmp", "/etc/hosts", "/none", "sub"}
\* external commands: one the host can start and one it cannot (ENOENT)
Startable    == {"ls"}
Unstartable  == {"nosuch"}
Builtins     == {"cd", "pwd", "clear"}

\* a Map with the key k set to v, and with the key k deleted
MapPut(m, k, v) == [x \in DOMAIN m \cup {k} |-> IF x = k THEN v ELSE m[x]]
MapDelete(m, k) == [x \in DOMAIN m \ {k} |-> m[x]]

NewSession(id) ==
  [id |-> id, processes |-> << >>, history |-> << >>,
   cwd |-> WorkingDirectory]

\* a child: its pid, whether it runs, the signals sent to it and the
\* session object its exit callback was registered for
NewProc(pid, status, obj) ==
  [pid |-> pid, status |-> status, kills |-> 0, obj |-> obj]

\* Process.kill(): childProcess.kill("SIGTERM") signals a running child
\* and does nothing for one that exited or never started
Kill(ps, h) ==
  IF ps[h].status = "running" THEN [ps EXCEPT ![h].kills = @ + 1] ELSE ps

RECURSIVE KillAll(_, _)
KillAll(ps, hs) ==
  IF hs = {} THEN ps
  ELSE LET h == CHOOSE x \in hs : TRUE
       IN KillAll(Kill(ps, h), hs \ {h})

\* a killProcess that signals the process and leaves its entry in the map
killProcess_KeepsEntry(regs, objs, ps, sessionId, pid) ==
  IF sessionId \notin DOMAIN regs
  THEN [sessObjs |-> objs, procs |-> ps, result |-> "false"]
  ELSE LET o == regs[sessionId]
       IN IF pid \notin DOMAIN objs[o].processes
          THEN [sessObjs |-> objs, procs |-> ps, result |-> "false"]
          ELSE [sessObjs |-> objs,
                procs |-> Kill(ps, objs[o].processes[pid]),
                result |-> "true"]

killProcess(regs, objs, ps, sessionId, pid) ==
  IF sessionId \notin DOMAIN regs
  THEN [sessObjs |-> objs, procs |-> ps, result |-> "false"]
  ELSE LET o == regs[sessionId]
       IN IF pid \notin DOMAIN objs[o].processes
          THEN [sessObjs |-> objs, procs |-> ps, result |-> "false"]
          ELSE [sessObjs |->
                  [objs EXCEPT ![o].processes = MapDelete(@, pid)],
                procs |-> Kill(ps, objs[o].processes[pid]),
                result |-> "true"]

\* a destroySession that unregisters the session and signals nothing
destroySession_NoKill(regs, objs, ps, sessionId) ==
  IF sessionId \notin DOMAIN regs
  THEN [sessions |-> regs, procs |-> ps, result |-> "false"]
  ELSE [sessions |-> MapDelete(regs, sessionId), procs |-> ps,
        result |-> "true"]

destroySession(regs, objs, ps, sessionId) ==
  IF sessionId \notin DOMAIN regs
  THEN [sessions |-> regs, procs |-> ps, result |-> "false"]
  ELSE LET m == objs[regs[sessionId]].processes
       IN [sessions |-> MapDelete(regs, sessionId),
           procs |-> KillAll(ps, {m[k] : k \in DOMAIN m}),
           result |-> "true"]

\* the pids the host may give to a new child: those of no running child
FreePids == Pids \ {procs[h].pid : h \in {x \in DOMAIN procs :
                                          procs[x].status = "running"}}

\* getSession: the session object registered under sessionId, if any
Undefined == 0
getSession_Any(regs, sessionId) ==
  IF sessionId \in DOMAIN regs THEN regs[sessionId]
  ELSE IF DOMAIN regs # {} THEN regs[CHOOSE x \in DOMAIN regs : TRUE]
  ELSE Undefined
getSession(regs, sessionId) ==
  IF sessionId \in DOMAIN regs THEN regs[sessionId] ELSE Undefined

\* handleCdCommand: the directory cd goes to, from the session's cwd
IsAbsolute(dir) == dir \notin RelativeArgs
CdTarget(cwd, arg) ==
  LET targetDir == IF arg # NoArg THEN arg ELSE HomeDir
  IN IF IsAbsolute(targetDir) THEN targetDir
     ELSE cwd \o "/" \o targetDir

\* handleCdCommand after fs.access and fs.stat: the session's new cwd
CdOutcome_Stays(cwd, targetDir) == cwd
CdOutcome(cwd, targetDir) ==
  IF targetDir \in HostDirs THEN targetDir ELSE cwd
\* and what it writes to the console
CdConsole(targetDir) ==
  IF targetDir \in HostDirs THEN "console.log" ELSE "console.error"

\* the route POST /api/terminal/execute gets or creates the session
\* before it calls executeCommand; a direct caller does not
RouteSessions(route, sessionId) ==
  IF route /\ getSession(sessions, sessionId) = Undefined
  THEN MapPut(sessions, sessionId, Len(sessObjs) + 1)
  ELSE sessions
RouteObjs(route, sessionId) ==
  IF route /\ getSession(sessions, sessionId) = Undefined
  THEN Append(sessObjs, NewSession(sessionId))
  ELSE sessObjs
Caller(route) == IF route THEN "POST" ELSE "executeCommand"

TermFrame ==
  /\ UNCHANGED << previews, inst, usedPorts, srv, calls, watcher,
                  processEnv, manifest, externalBusy, nextId, alloc,
                  stopMidStart, now >>
  /\ UNCHANGED fsVars
  /\ UNCHANGED streamVars
  /\ UNCHANGED treeVars
TermCounted == ncalls < MaxTermOps /\ ncalls' = ncalls + 1
TermArg(sessionId, x) == [session |-> sessionId, arg |-> x]

TermInit ==
  /\ previews = {}
  /\ inst = << >>
  /\ usedPorts = {}
  /\ srv = << >>
  /\ calls = EmptyBag
  /\ watcher = << >>
  /\ processEnv = [k \in EnvNames |-> "unset"]
  /\ manifest = RootOnly(NoManifest)
  /\ externalBusy = {}
  /\ now = 0
  /\ nextId = 1
  /\ ncalls = 0
  /\ emitted = << >>
  /\ ret = NoRet
  /\ alloc = {}
  /\ stopMidStart = {}
  /\ FsIdle
  /\ TermIdle
  /\ StreamIdle
  /\ TreeIdle

\* createSession(sessionId?)
TmCreateSession(sessionId) ==
  /\ TermCounted
  /\ Len(sessObjs) < MaxSessions
  /\ LET id == IF sessionId # NoSessionId THEN sessionId ELSE GeneratedId
     IN /\ sessionId = NoSessionId => GeneratedId \notin DOMAIN sessions
        /\ sessObjs' = Append(sessObjs, NewSession(id))
        /\ sessions' = MapPut(sessions, id, Len(sessObjs) + 1)
        /\ ret' = Ret("createSession", TermArg(sessionId, NoArg), "session")
  /\ emitted' = << >>
  /\ UNCHANGED << procs, termCalls >>
  /\ TermFrame

TmGetSession(sessionId) ==
  /\ TermCounted
  /\ ret' = Ret("getSession", TermArg(sessionId, NoArg),
                IF getSession(sessions, sessionId) = Undefined
                THEN "undefined" ELSE "session")
  /\ emitted' = << >>
  /\ UNCHANGED termVars
  /\ TermFrame

\* executeCommand for a session that is not registered
TmExecuteUnknown(sessionId, command) ==
  /\ TermCounted
  /\ getSession(sessions, sessionId) = Undefined
  /\ ret' = Ret("executeCommand", TermArg(sessionId, command), "throws")
  /\ emitted' = << >>
  /\ UNCHANGED termVars
  /\ TermFrame

\* executeCommand("pwd" | "clear"): nothing is awaited but resolved
\* promises, so the call runs to its return before any other event
TmExecuteBuiltin(route, sessionId, command) ==
  /\ TermCounted
  /\ command \in {"pwd", "clear"}
  /\ LET regs == RouteSessions(route, sessionId)
         objs == RouteObjs(route, sessionId)
         o == getSession(regs, sessionId)
     IN /\ o # Undefined
        /\ Len(objs) <= MaxSessions
        /\ sessions' = regs
        /\ sessObjs' = [objs EXCEPT ![o].history =
                                      Append(@, << command, NoArg >>)]
        /\ emitted' = IF command = "pwd"
                      THEN << Ev("console.log", objs[o].cwd) >> ELSE << >>
  /\ ret' = Ret(Caller(route), TermArg(sessionId, command), "mock")
  /\ UNCHANGED << procs, termCalls >>
  /\ TermFrame

\* executeCommand("cd", [arg]) up to the imports of handleCdCommand
TmExecuteCd(route, sessionId, arg) ==
  /\ TermCounted
  /\ BagCardinality(termCalls) < MaxInFlight
  /\ LET regs == RouteSessions(route, sessionId)
         objs == RouteObjs(route, sessionId)
         o == getSession(regs, sessionId)
     IN /\ o # Undefined
        /\ Len(objs) <= MaxSessions
        /\ sessions' = regs
        /\ sessObjs' = [objs EXCEPT ![o].history =
                                      Append(@, << "cd", arg >>)]
        /\ termCalls' = termCalls (+)
                          SetToBag({[session |-> sessionId, obj |-> o,
                                     route |-> route, arg |-> arg,
                                     pc |-> "import", target |-> NoArg]})
  /\ ret' = NoRet
  /\ emitted' = << >>
  /\ UNCHANGED procs
  /\ TermFrame

\* handleCdCommand resumes from its imports: it resolves the target
\* against the cwd the session has now and asks the file system
TmCdAccess(c) ==
  /\ c \in BagToSet(termCalls)
  /\ c.pc = "import"
  /\ termCalls' = (termCalls (-) SetToBag({c})) (+)
                  SetToBag({[c EXCEPT !.pc = "access",
                                      !.target =
                                        CdTarget(sessObjs[c.obj].cwd,
                                                 c.arg)]})
  /\ ret' = NoRet
  /\ emitted' = << >>
  /\ UNCHANGED << sessions, sessObjs, procs, ncalls >>
  /\ TermFrame

\* handleCdCommand resumes from fs.access and fs.stat; executeCommand
\* returns the mock process
TmCdDone(c) ==
  /\ c \in BagToSet(termCalls)
  /\ c.pc = "access"
  /\ termCalls' = termCalls (-) SetToBag({c})
  /\ sessObjs' = [sessObjs EXCEPT ![c.obj].cwd = CdOutcome(@, c.target)]
  /\ ret' = Ret(Caller(c.route), TermArg(c.session, "cd"), "mock")
  /\ emitted' = << Ev(CdConsole(c.target), c.target) >>
  /\ UNCHANGED << sessions, procs, ncalls >>
  /\ TermFrame

\* executeCommand of an external command.  handleBuiltinCommand and
\* NodeTerminal.spawn await nothing but resolved promises, so the child
\* is spawned, entered into the map and given its exit callback before
\* the event loop delivers any event of the child.
TmExecuteExternal(route, sessionId, command, pid) ==
  /\ TermCounted
  /\ Len(procs) < MaxProcs
  /\ \/ command \in Startable /\ pid \in FreePids
     \/ command \in Unstartable /\ pid = NoPid
  /\ LET regs == RouteSessions(route, sessionId)
         objs == RouteObjs(route, sessionId)
         o == getSession(regs, sessionId)
         h == Len(procs) + 1
     IN /\ o # Undefined
        /\ Len(objs) <= MaxSessions
        /\ sessions' = regs
        /\ procs' = Append(procs,
                      NewProc(pid,
                              IF pid = NoPid THEN "failed" ELSE "running",
                              o))
        /\ sessObjs' = [objs EXCEPT
                          ![o].history = Append(@, << command, NoArg >>),
                          ![o].processes = MapPut(@, pid, h)]
  /\ ret' = Ret(Caller(route), TermArg(sessionId, command), "process")
  /\ emitted' = << >>
  /\ UNCHANGED termCalls
  /\ TermFrame

\* a running child exits, by itself or after a signal: the "exit" event
\* runs the callback executeCommand registered
TmProcessExit(h) ==
  /\ h \in DOMAIN procs
  /\ procs[h].status = "running"
  /\ procs' = [procs EXCEPT ![h].status = "exited"]
  /\ sessObjs' = [sessObjs EXCEPT ![procs[h].obj].processes =
                                     MapDelete(@, procs[h].pid)]
  /\ ret' = NoRet
  /\ emitted' = << >>
  /\ UNCHANGED << sessions, termCalls, ncalls >>
  /\ TermFrame

TmKillProcess(sessionId, pid) ==
  /\ TermCounted
  /\ LET r == killProcess(sessions, sessObjs, procs, sessionId, pid)
     IN /\ sessObjs' = r.sessObjs
        /\ procs' = r.procs
        /\ ret' = Ret("killProcess", TermArg(sessionId, pid), r.result)
  /\ emitted' = << >>
  /\ UNCHANGED << sessions, termCalls >>
  /\ TermFrame

TmDestroySession(sessionId) ==
  /\ TermCounted
  /\ LET r == destroySession(sessions, sessObjs, procs, sessionId)
     IN /\ sessions' = r.sessions
        /\ procs' = r.procs
        /\ ret' = Ret("destroySession", TermArg(sessionId, NoArg), r.result)
  /\ emitted' = << >>
  /\ UNCHANGED << sessObjs, termCalls >>
  /\ TermFrame

TermNext ==
  \/ \E sessionId \in SessionIds \cup {NoSessionId} :
       TmCreateSession(sessionId)
  \/ \E sessionId \in SessionIds : TmGetSession(sessionId)
  \/ \E sessionId \in SessionIds, command \in Builtins \cup Startable :
       TmExecuteUnknown(sessionId, command)
  \/ \E route \in BOOLEAN, sessionId \in SessionIds, command \in Builtins :
       TmExecuteBuiltin(route, sessionId, command)
  \/ \E route \in BOOLEAN, sessionId \in SessionIds, arg \in CdArgs :
       TmExecuteCd(route, sessionId, arg)
  \/ \E c \in BagToSet(termCalls) : TmCdAccess(c)
  \/ \E c \in BagToSet(termCalls) : TmCdDone(c)
  \/ \E route \in BOOLEAN, sessionId \in SessionIds,
        command \in Startable \cup Unstartable, pid \in Pids \cup {NoPid} :
       TmExecuteExternal(route, sessionId, command, pid)
  \/ \E h \in DOMAIN procs : TmProcessExit(h)
  \/ \E sessionId \in SessionIds, pid \in Pids : TmKillProcess(sessionId, pid)
  \/ \E sessionId \in SessionIds : TmDestroySession(sessionId)

SpecTerm == TermInit /\ [][TermNext]_vars

\* ---------------------------------------------------------------------
\* Claims about the terminal multiplexer
\* ---------------------------------------------------------------------

\* the process a killProcess(sessionId, pid) finds in the map
KillFinds(sessionId, pid) ==
  /\ sessionId \in DOMAIN sessions
  /\ pid \in DOMAIN sessObjs[sessions[sessionId]].processes

\* C19: killProcess(sessionId, pid) on a live process sends it one
\* termination signal, removes exactly that entry from the session's
\* live-process map and returns true; a second killProcess on the same
\* pid, and a killProcess with an unknown session or pid, returns false,
\* sends no signal and changes no map; and over any sequence of
\* killProcess, destroySession and process exits no process is signalled
\* twice.
Thm_C19 ==
  /\ [][\A sessionId \in SessionIds, pid \in Pids :
          (ret'.op = "killProcess" /\ ret'.id = TermArg(sessionId, pid)) =>
            IF KillFinds(sessionId, pid)
            THEN LET o == sessions[sessionId]
                     h == sessObjs[o].processes[pid]
                 IN /\ procs[h].status = "running"
                    /\ ret'.result = "true"
                    /\ procs' = [procs EXCEPT ![h].kills = @ + 1]
                    /\ sessObjs' = [sessObjs EXCEPT ![o].processes =
                                       MapDelete(@, pid)]
                    /\ pid \notin DOMAIN sessObjs'[o].processes
                    /\ sessions' = sessions
            ELSE /\ ret'.result = "false"
                 /\ UNCHANGED << sessions, sessObjs, procs >>]_vars
  /\ [](\A h \in DOMAIN procs : procs[h].kills <= 1)

\* a second killProcess on a pid whose process was signalled by the first
\* and still runs has returned false
W_C19 ==
  /\ ret.op = "killProcess"
  /\ ret.result = "false"
  /\ ret.id.session \in DOMAIN sessions
  /\ \E h \in DOMAIN procs :
       /\ procs[h].pid = ret.id.arg
       /\ procs[h].status = "running"
       /\ procs[h].kills = 1
       /\ procs[h].obj = sessions[ret.id.session]

\* C20: every entry of a session's live-process map is a process that
\* runs: one that exited, with whatever code, or that never started has
\* no entry.
CE_C20 ==
  \A o \in DOMAIN sessObjs :
    \A k \in DOMAIN sessObjs[o].processes :
      procs[sessObjs[o].processes[k]].status = "running"

\* the suspended cd c returns in this step
CdReturns(c) ==
  /\ c \in BagToSet(termCalls)
  /\ c.pc = "access"
  /\ termCalls' = termCalls (-) SetToBag({c})
\* this step returns from a built-in command
BuiltinReturns ==
  /\ ret'.op \in {"executeCommand", "POST"}
  /\ ret'.result = "mock"
  /\ ncalls' # ncalls \/ termCalls' # termCalls
\* the live-process maps after the step are those before it
SameMaps ==
  \A o \in DOMAIN sessObjs' :
    sessObjs'[o].processes =
      IF o \in DOMAIN sessObjs THEN sessObjs[o].processes ELSE << >>

\* C23: cd, pwd and clear spawn no process and leave every live-process
\* map as it is, in each step they take; a cd to an existing directory
\* makes that directory the cwd of the session it ran in (cd /tmp makes
\* it /tmp), and pwd leaves every cwd unchanged.
Thm_C23 ==
  [][/\ (BuiltinReturns \/ termCalls' # termCalls) =>
          (procs' = procs /\ SameMaps)
     /\ \A c \in BagToSet(termCalls) :
          CdReturns(c) =>
            /\ c.target \in HostDirs => sessObjs'[c.obj].cwd = c.target
            /\ c.arg = "/tmp" => sessObjs'[c.obj].cwd = "/tmp"
     /\ (BuiltinReturns /\ ret'.id.arg = "pwd") =>
          \A o \in DOMAIN sessObjs : sessObjs'[o].cwd = sessObjs[o].cwd
    ]_vars

\* session s1 was created, ran cd /tmp and then pwd
W_C23 ==
  /\ ret = Ret("executeCommand", TermArg("s1", "pwd"), "mock")
  /\ "s1" \in DOMAIN sessions
  /\ sessObjs[sessions["s1"]].cwd = "/tmp"
  /\ sessObjs[sessions["s1"]].history = << << "cd", "/tmp" >>,
                                           << "pwd", NoArg >> >>
  /\ sessObjs[sessions["s1"]].processes = << >>
  /\ procs = << >>

\* C24: a cd whose target does not exist or is no directory leaves the
\* cwd of its session unchanged and returns an error to its caller.
CE_C24 ==
  [][\A c \in BagToSet(termCalls) :
       (CdReturns(c) /\ c.target \notin HostDirs) =>
         /\ sessObjs'[c.obj].cwd = sessObjs[c.obj].cwd
         /\ ret'.result # "mock"]_vars

\* C25: executeCommand with an unregistered session id throws and changes
\* nothing (no session, no history entry, no process, no suspended
\* call), it throws for no other reason, and getSession and killProcess
\* with an unregistered id return undefined and false and change nothing.
Thm_C25 ==
  [][/\ (ret'.op = "executeCommand" /\ ncalls' # ncalls
           /\ ret'.id.session \notin DOMAIN sessions) =>
          (ret'.result = "throws" /\ UNCHANGED termVars)
     /\ (ret'.op = "executeCommand" /\ ret'.result = "throws") =>
          ret'.id.session \notin DOMAIN sessions
     /\ \A c \in BagToSet(termCalls') \ BagToSet(termCalls) :
          (c.pc = "import" /\ ~c.route) => c.session \in DOMAIN sessions
     /\ (ret'.op \in {"getSession", "killProcess"}
           /\ ret'.id.session \notin DOMAIN sessions) =>
          (ret'.result \in {"undefined", "false"} /\ UNCHANGED termVars)
    ]_vars

\* an executeCommand for an unregistered id has thrown while another
\* session is registered and has a live process
W_C25 ==
  /\ ret.op = "executeCommand"
  /\ ret.result = "throws"
  /\ ret.id.session \notin DOMAIN sessions
  /\ \E x \in DOMAIN sessions :
       sessObjs[sessions[x]].processes # << >>

\* C26: executeCommand never fails for lack of a session: a session id
\* seen for the first time is created by the call.
CE_C26 ==
  ret.op = "executeCommand" =>
    (ret.result # "throws" /\ ret.id.session \in DOMAIN sessions)

\* C27: destroySession(id) on a registered session signals every process
\* of the session's live-process map and no other, unregisters the
\* session, so that getSession(id) finds nothing, and returns true; on
\* an unregistered id it returns false and changes nothing.
Thm_C27 ==
  [][\A sessionId \in SessionIds :
       (ret'.op = "destroySession" /\ ret'.id.session = sessionId) =>
         IF sessionId \in DOMAIN sessions
         THEN LET m == sessObjs[sessions[sessionId]].processes
                  hs == {m[k] : k \in DOMAIN m}
              IN /\ \A h \in DOMAIN procs :
                      procs'[h] =
                        IF h \in hs /\ procs[h].status = "running"
                        THEN [procs[h] EXCEPT !.kills = @ + 1]
                        ELSE procs[h]
                 /\ DOMAIN procs' = DOMAIN procs
                 /\ sessions' = MapDelete(sessions, sessionId)
                 /\ getSession(sessions', sessionId) = Undefined
                 /\ ret'.result = "true"
         ELSE ret'.result = "false" /\ UNCHANGED termVars]_vars

\* a session with a running process was destroyed: the process was
\* signalled once and the id is registered no more
W_C27 ==
  /\ ret.op = "destroySession"
  /\ ret.result = "true"
  /\ ret.id.session \notin DOMAIN sessions
  /\ \E h \in DOMAIN procs :
       /\ procs[h].status = "running"
       /\ procs[h].kills = 1
       /\ sessObjs[procs[h].obj].id = ret.id.session

\* ---------------------------------------------------------------------
\* Part 6: the merged output stream of one spawned process
\* (createOutputGenerator, readStream, mergeAsyncGenerators)
\* ---------------------------------------------------------------------

MaxChunks == 2       \* chunks the process writes on one channel
MaxYield  == 3       \* chunks the consumer pulls from the merged stream

\* createOutputGenerator passes [stdout, stderr]; mergeAsyncGenerators
\* maps them to `promises`, an array it never changes afterwards
Promises == << "stdout", "stderr" >>
Channels == {Promises[i] : i \in DOMAIN Promises}

\* a promise of `promises`: not settled, or settled with the first item
\* of its generator, or with null when the generator ended without one
Unsettled == [state |-> "pending"]
Nothing   == [state |-> "null"]
Item(type, data) == [state |-> "item", type |-> type, data |-> data]

\* Promise.race(promises) with a promise already settled: the reactions
\* run in array order, so the first settled promise of the array wins
Race(f) ==
  LET settled == {i \in DOMAIN Promises : f[Promises[i]] # Unsettled}
      i == CHOOSE x \in settled : \A y \in settled : x <= y
  IN f[Promises[i]]

\* the body of the while loop once the race has the value v: an item is
\* yielded; after null the loop races again at once, over the same
\* settled promise, and never leaves the microtask queue
AfterRace(m, v) ==
  IF v.state = "item"
  THEN [status |-> "yielded",
        out |-> Append(m.out, [type |-> v.type, data |-> v.data])]
  ELSE [m EXCEPT !.status = "spinning"]

\* the loop test `promises.length > 0` and the race it enters
Iterate(m, f) ==
  IF Len(Promises) = 0 THEN [m EXCEPT !.status = "done"]
  ELSE IF \A ch \in Channels : f[ch] = Unsettled
       THEN [m EXCEPT !.status = "waiting"]
       ELSE AfterRace(m, Race(f))

StreamFrame == UNCHANGED << pvVars, fsVars, termVars, treeVars >>

StreamInit ==
  /\ previews = {}
  /\ inst = << >>
  /\ usedPorts = {}
  /\ srv = << >>
  /\ calls = EmptyBag
  /\ watcher = << >>
  /\ processEnv = [k \in EnvNames |-> "unset"]
  /\ manifest = RootOnly(NoManifest)
  /\ externalBusy = {}
  /\ now = 0
  /\ nextId = 1
  /\ ncalls = 0
  /\ emitted = << >>
  /\ ret = NoRet
  /\ alloc = {}
  /\ stopMidStart = {}
  /\ FsIdle
  /\ TermIdle
  /\ chan = [ch \in Channels |-> [sent |-> << >>, closed |-> FALSE]]
  /\ first = [ch \in Channels |-> Unsettled]
  /\ merged = [status |-> "idle", out |-> << >>]
  /\ TreeIdle

\* the process writes a chunk on a channel; NodeTerminal's "data"
\* listener enqueues it
ChanEmit(ch) ==
  /\ merged.status # "spinning"
  /\ ~chan[ch].closed
  /\ Len(chan[ch].sent) < MaxChunks
  /\ chan' = [chan EXCEPT ![ch].sent = Append(@, Len(@) + 1)]
  /\ UNCHANGED << first, merged >>
  /\ StreamFrame

\* the channel ends; NodeTerminal's "end" listener closes the stream
ChanClose(ch) ==
  /\ merged.status # "spinning"
  /\ ~chan[ch].closed
  /\ chan' = [chan EXCEPT ![ch].closed = TRUE]
  /\ UNCHANGED << first, merged >>
  /\ StreamFrame

\* the consumer asks the merged generator for its next chunk: the first
\* time the generator starts, afterwards it resumes behind its yield
StreamPull ==
  /\ merged.status \in {"idle", "yielded"}
  /\ Len(merged.out) < MaxYield
  /\ merged' = Iterate(merged, first)
  /\ UNCHANGED << chan, first >>
  /\ StreamFrame

\* reader.read() of a channel resolves for the function that awaits the
\* first item of readStream: with a chunk it returns the item (and the
\* generator is closed), at the end of an empty stream it returns null
ReadSettles(ch) ==
  /\ merged.status \in {"waiting", "yielded"}
  /\ first[ch] = Unsettled
  /\ chan[ch].sent # << >> \/ chan[ch].closed
  /\ LET v == IF chan[ch].sent # << >>
              THEN Item(ch, chan[ch].sent[1]) ELSE Nothing
     IN /\ first' = [first EXCEPT ![ch] = v]
        /\ merged' = IF merged.status = "waiting"
                     THEN AfterRace(merged, v) ELSE merged
  /\ UNCHANGED chan
  /\ StreamFrame

StreamNext ==
  \/ \E ch \in Channels : ChanEmit(ch)
  \/ \E ch \in Channels : ChanClose(ch)
  \/ StreamPull
  \/ \E ch \in Channels : ReadSettles(ch)

SpecStream == StreamInit /\ [][StreamNext]_vars
\* the event loop delivers what is ready and the consumer keeps pulling
SpecStreamLive == SpecStream /\ WF_vars(StreamNext)

\* ---------------------------------------------------------------------
\* Claims about the merged output stream
\* ---------------------------------------------------------------------

BothClosed == \A ch \in Channels : chan[ch].closed
\* the chunks of channel ch in the merged stream, in the order yielded
RECURSIVE Of(_, _)
Of(out, ch) ==
  IF out = << >> THEN << >>
  ELSE IF out[1].type = ch
       THEN << out[1].data >> \o Of(Tail(out), ch)
       ELSE Of(Tail(out), ch)
IsPrefix(a, b) == Len(a) <= Len(b) /\ \A i \in DOMAIN a : a[i] = b[i]

\* C21: once both channels of the process have closed, the merged stream
\* ends.
CE_C21 == BothClosed ~> (merged.status = "done")

\* C22: the merged stream holds the chunks of each channel once each and
\* in the order the channel emitted them: what it has yielded of a
\* channel is a prefix of what the channel wrote.
CE_C22 == \A ch \in Channels : IsPrefix(Of(merged.out, ch), chan[ch].sent)

\* ---------------------------------------------------------------------
\* Claims about the preview registry, continued
\* ---------------------------------------------------------------------

\* the status changes the state machine of a preview instance has; the
\* change running -> starting of a restart is counted among them
StatusSteps ==
  {<< "starting", "running" >>, << "starting", "error" >>,
   << "running", "stopped" >>, << "running", "error" >>,
   << "error", "starting" >>, << "stopped", "starting" >>,
   << "running", "starting" >>}

\* C28: the status of a preview instance changes only along
\* starting->running, starting->error, running->stopped, running->error
\* and, by a restart, back to starting; and no instance that was removed
\* from the registry is set to running.
CE_C28 ==
  [][\A id \in DOMAIN inst :
       inst'[id].status # inst[id].status =>
         /\ << inst[id].status, inst'[id].status >> \in StatusSteps
         /\ inst'[id].status = "running" => id \in previews']_vars

\* ---------------------------------------------------------------------
\* Claims about the cached file system, continued
\* ---------------------------------------------------------------------

\* the suspended call c returns in this step
FsReturns(c) == c \in BagToSet(fsCalls) /\ fsCalls' = FsResume(c)

\* C29: when writeFile(p, c) succeeds the content cache holds c for p and
\* the metadata cache no entry for p, so that a stat(p) then misses the
\* cache; when remove(p) succeeds neither cache holds an entry for p;
\* and when a writeFile or remove fails both caches are left as they
\* were and the error is returned.
Thm_C29 ==
  [][/\ \A c \in BagToSet(fsCalls) :
          (FsReturns(c) /\ c.op \in {"writeFile", "remove"}
             /\ ret'.op = c.op /\ ret'.result.ok) =>
            /\ KeyIndex(statsCache', c.path) = 0
            /\ ~CacheGet(statsCache', c.path, now').defined
            /\ IF c.op = "writeFile"
               THEN /\ KeyIndex(cache', c.path) # 0
                    /\ cache'[KeyIndex(cache', c.path)].value = c.content
                    /\ CacheGet(cache', c.path, now').value = c.content
               ELSE KeyIndex(cache', c.path) = 0
     /\ (\/ ret'.op \in {"writeFile", "remove"} /\ ncalls' = ncalls + 1
         \/ \E c \in BagToSet(fsCalls) :
              FsReturns(c) /\ c.op \in {"writeFile", "remove"}) =>
          (~ret'.result.ok =>
             /\ cache' = cache /\ statsCache' = statsCache
             /\ ret'.result.error # "")
    ]_vars

\* a remove has succeeded: neither cache holds an entry of its path,
\* while the metadata cache keeps the entry of another path
W_C29 ==
  /\ ret.op = "remove"
  /\ ret.result = FsOk(<< >>)
  /\ KeyIndex(cache, ret.id) = 0
  /\ KeyIndex(statsCache, ret.id) = 0
  /\ statsCache # << >>

\* ---------------------------------------------------------------------
\* Part 7: the file tree of the FileManager (refreshFileTree,
\* buildFileTree).  The working directory is a map from relative paths
\* to "directory" or "file"; size and mtime of a node are left out.
\* ---------------------------------------------------------------------

MaxTreeOps == 3      \* refreshes and changes of the directory per behaviour

RootPath == "."
\* the entry names there are, in the order of String.localeCompare (the
\* collation of ICU: a letter before the next letter whatever the case)
NameOrder == << ".git", "a", "B", "b.md" >>
Names == {NameOrder[i] : i \in DOMAIN NameOrder}
\* path.join(dirPath, entry)
Join(dirPath, entry) ==
  IF dirPath = RootPath THEN entry ELSE dirPath \o "/" \o entry
\* the paths the directory may hold, each with the path of its parent
TreePaths == {"a", "B", "b.md", ".git", "a/b.md", "a/B"}
ParentOf ==
  [q \in TreePaths |-> IF q \in {"a/b.md", "a/B"} THEN "a" ELSE RootPath]
InitialWorld ==
  [q \in {RootPath, "a", "b.md", ".git", "a/b.md"} |->
     IF q \in {"b.md", "a/b.md"} THEN "file" ELSE "directory"]

\* a shouldIgnoreFile that ignores nothing
shouldIgnoreFile_None(filename) == FALSE
\* shouldIgnoreFile on the names there are
shouldIgnoreFile(filename) == filename \in {".git"}

\* fs.readdir(dirPath) on the directory w
Entries(w, dirPath) == {e \in Names : Join(dirPath, e) \in DOMAIN w}

NoTree == [type |-> "none"]
Failed == [type |-> "error"]
TreeNode(name, nodePath, type, listed, children) ==
  [name |-> name, path |-> nodePath, type |-> type,
   listed |-> listed,          \* whether the node has a children array
   children |-> children]

\* children.sort: directories first, then by name
Before(x, y) ==
  IF x.type # y.type THEN x.type = "directory"
  ELSE \E i, j \in DOMAIN NameOrder :
         NameOrder[i] = x.name /\ NameOrder[j] = y.name /\ i < j
RECURSIVE SortNodes(_)
SortNodes(S) ==
  IF S = {} THEN << >>
  ELSE LET x == CHOOSE n \in S : \A m \in S \ {n} : Before(n, m)
       IN << x >> \o SortNodes(S \ {x})

\* buildFileTree(dirPath) when the stat of the paths in statFails and
\* the readdir of the paths in listFails throw
RECURSIVE buildFileTree(_, _, _, _, _)
buildFileTree(w, dirPath, name, statFails, listFails) ==
  IF dirPath \notin DOMAIN w \/ dirPath \in statFails THEN Failed
  ELSE IF w[dirPath] = "file"
  THEN TreeNode(name, dirPath, "file", FALSE, << >>)
  ELSE IF dirPath \in listFails
  THEN TreeNode(name, dirPath, "directory", FALSE, << >>)
  ELSE LET built ==
             {buildFileTree(w, Join(dirPath, e), e, statFails, listFails) :
                e \in {x \in Entries(w, dirPath) : ~shouldIgnoreFile(x)}}
       IN TreeNode(name, dirPath, "directory", TRUE,
                   SortNodes(built \ {Failed}))

\* ---- searchFiles ----

\* queries, file patterns and maxResults arguments
Queries == {<< >>, << "a" >>, << "b" >>}
NoPattern == "none"
FilePatterns == {NoPattern, "\\.md$"}
MaxResultsArgs == {0, 1, 2}
\* the searches made: by name with each limit, by content, with a
\* pattern, and with the empty query
SearchRequests ==
  {r \in [query : Queries, includeContent : BOOLEAN,
          filePattern : FilePatterns, maxResults : MaxResultsArgs] :
     \/ r.query = << "b" >> /\ ~r.includeContent
          /\ r.filePattern = NoPattern
     \/ r.query = << "a" >> /\ r.includeContent /\ r.maxResults = 2
     \/ r.query = << >> /\ r.filePattern = NoPattern /\ r.maxResults = 1}
DefaultMaxResults == 100

\* node.name.toLowerCase().includes(query.toLowerCase()) on the names
\* there are
NameMatches(name, query) ==
  \/ query = << >>
  \/ query = << "a" >> /\ name = "a"
  \/ query = << "b" >> /\ name \in {"B", "b.md"}
\* options.filePattern.test(node.name)
PatternTest(filePattern, name) == name \in {"b.md"}
\* isTextFile: the extension is in the list
isTextFile(filename) == filename \in {"b.md"}

\* the lines of the text files, content.split("\n"), all in lower case
TextLines ==
  [q \in {"b.md", "a/b.md"} |->
     IF q = "b.md" THEN << << "a", "b", "a" >>, << >> >>
     ELSE << << "b" >> >>]

\* lowerLine.indexOf(lowerQuery, from), counting from 0; -1 when absent
indexOf(line, query, from) ==
  LET at == {i \in from .. (Len(line) - Len(query)) :
               \A k \in 1 .. Len(query) : line[i + k] = query[k]}
  IN IF at = {} THEN -1 ELSE CHOOSE i \in at : \A j \in at : i <= j

\* the while loop over one line: the matches it records, or that it
\* never ends, which is when an iteration leaves searchIndex where it was
RECURSIVE ScanLine(_, _, _, _, _)
ScanLine(line, lineNo, query, searchIndex, matches) ==
  LET i == indexOf(line, query, searchIndex)
  IN IF i = -1 THEN [hangs |-> FALSE, matches |-> matches]
     ELSE IF i + Len(query) = searchIndex
     THEN [hangs |-> TRUE, matches |-> matches]
     ELSE ScanLine(line, lineNo, query, i + Len(query),
                   Append(matches, [line |-> lineNo, start |-> i,
                                    end |-> i + Len(query)]))

\* lines.forEach
RECURSIVE ScanLines(_, _, _, _)
ScanLines(lines, lineNo, query, matches) ==
  IF lineNo > Len(lines) THEN [hangs |-> FALSE, matches |-> matches]
  ELSE LET r == ScanLine(lines[lineNo], lineNo, query, 0, matches)
       IN IF r.hangs THEN r
          ELSE ScanLines(lines, lineNo + 1, query, r.matches)

\* `options.maxResults || 100`
EffectiveMax(options) ==
  IF options.maxResults # 0 THEN options.maxResults ELSE DefaultMaxResults

\* searchInNode(node, query, results, options) on the directory w; acc
\* holds the results, the paths of the nodes searched so far and whether
\* the scan of a line never ends
RECURSIVE searchInNode(_, _, _, _, _)
RECURSIVE SearchChildren(_, _, _, _, _, _)
searchInNode(node, query, acc, options, w) ==
  IF Len(acc.results) >= EffectiveMax(options) THEN acc
  ELSE LET seen == [acc EXCEPT !.visited = Append(@, node.path)]
           nameMatches == NameMatches(node.name, query)
       IN IF node.type = "file"
          THEN IF nameMatches \/ options.filePattern = NoPattern
                  \/ PatternTest(options.filePattern, node.name)
               THEN LET scan ==
                          IF options.includeContent /\ isTextFile(node.name)
                             /\ node.path \in DOMAIN w /\ w[node.path] = "file"
                             /\ node.path \in DOMAIN TextLines
                          THEN ScanLines(TextLines[node.path], 1, query, << >>)
                          ELSE [hangs |-> FALSE, matches |-> << >>]
                    IN IF scan.hangs THEN [seen EXCEPT !.hangs = TRUE]
                       ELSE IF nameMatches \/ scan.matches # << >>
                       THEN [seen EXCEPT !.results =
                               Append(@, [path |-> node.path,
                                          name |-> node.name,
                                          type |-> "file",
                                          matches |-> scan.matches])]
                       ELSE seen
               ELSE seen
          ELSE IF node.listed
          THEN SearchChildren(node.children, 1, query, seen, options, w)
          ELSE seen
SearchChildren(children, i, query, acc, options, w) ==
  IF i > Len(children) THEN acc
  ELSE LET r == searchInNode(children[i], query, acc, options, w)
       IN IF r.hangs \/ Len(r.results) >= EffectiveMax(options) THEN r
          ELSE SearchChildren(children, i + 1, query, r, options, w)

\* results.slice(0, maxResults)
Slice(results, maxResults) ==
  SubSeq(results, 1, IF maxResults < Len(results) THEN maxResults
                     ELSE Len(results))

TreeFrame ==
  /\ UNCHANGED << previews, inst, usedPorts, srv, calls, watcher,
                  processEnv, manifest, externalBusy, nextId, alloc,
                  stopMidStart, now >>
  /\ UNCHANGED << cache, statsCache >>
  /\ UNCHANGED termVars
  /\ UNCHANGED streamVars
\* a search that scans without end keeps the thread: nothing else runs
Hung == \E c \in BagToSet(fsCalls) : c.pc = "hung"
TreeCounted == ~Hung /\ ncalls < MaxTreeOps /\ ncalls' = ncalls + 1

TreeInit ==
  /\ previews = {}
  /\ inst = << >>
  /\ usedPorts = {}
  /\ srv = << >>
  /\ calls = EmptyBag
  /\ watcher = << >>
  /\ processEnv = [k \in EnvNames |-> "unset"]
  /\ manifest = RootOnly(NoManifest)
  /\ externalBusy = {}
  /\ now = 0
  /\ nextId = 1
  /\ ncalls = 0
  /\ emitted = << >>
  /\ ret = NoRet
  /\ alloc = {}
  /\ stopMidStart = {}
  /\ cache = << >>
  /\ statsCache = << >>
  /\ disk = InitialWorld
  /\ fsCalls = EmptyBag
  /\ hist = << >>
  /\ TermIdle
  /\ StreamIdle
  /\ fileTree = NoTree

\* an entry appears in the working directory
WorldAdd(q, type) ==
  /\ TreeCounted
  /\ q \notin DOMAIN disk
  /\ ParentOf[q] \in DOMAIN disk /\ disk[ParentOf[q]] = "directory"
  /\ disk' = (q :> type) @@ disk
  /\ ret' = NoRet /\ emitted' = << >>
  /\ UNCHANGED << fsCalls, fileTree, hist >>
  /\ TreeFrame

\* an entry, with what lies below it, disappears
WorldRemove(q) ==
  /\ TreeCounted
  /\ q \in DOMAIN disk
  /\ disk' = [x \in {y \in DOMAIN disk :
                       y # q /\ (y \in TreePaths => ParentOf[y] # q)} |->
                disk[x]]
  /\ ret' = NoRet /\ emitted' = << >>
  /\ UNCHANGED << fsCalls, fileTree, hist >>
  /\ TreeFrame

\* refreshFileTree() up to the first await of buildFileTree(".")
TreeRefreshCall ==
  /\ TreeCounted
  /\ BagCardinality(fsCalls) < MaxInFlight
  /\ fsCalls' = fsCalls (+) SetToBag({[op |-> "refreshFileTree",
                                       pc |-> "build"]})
  /\ ret' = NoRet /\ emitted' = << >>
  /\ UNCHANGED << disk, fileTree, hist >>
  /\ TreeFrame

\* buildFileTree(".") walks the directory, the file system failing on
\* the stat of statFails and on the listing of listFails; then
\* refreshFileTree stores the tree and emits treeUpdated, or rejects
\* when the stat of the root failed
TreeRefreshDone(c, statFails, listFails) ==
  /\ c \in BagToSet(fsCalls)
  /\ ~Hung
  /\ c.op = "refreshFileTree"
  /\ fsCalls' = fsCalls (-) SetToBag({c})
  /\ LET t == buildFileTree(disk, RootPath, RootPath, statFails, listFails)
         arg == [stat |-> statFails, list |-> listFails]
     IN IF t = Failed
        THEN /\ fileTree' = fileTree
             /\ emitted' = << >>
             /\ ret' = Ret("refreshFileTree", arg, "throws")
        ELSE /\ fileTree' = t
             /\ emitted' = << Ev("treeUpdated", t) >>
             /\ ret' = Ret("refreshFileTree", arg, "ok")
  /\ UNCHANGED << disk, ncalls, hist >>
  /\ TreeFrame

\* searchFiles(query, options) up to its first await: of
\* refreshFileTree() when no tree is stored, of the search otherwise
TreeSearchCall(query, includeContent, filePattern, maxResults) ==
  /\ TreeCounted
  /\ BagCardinality(fsCalls) < MaxInFlight
  /\ fsCalls' = fsCalls (+)
       SetToBag({[op |-> "searchFiles",
                  pc |-> IF fileTree = NoTree THEN "refresh" ELSE "search",
                  query |-> query,
                  options |-> [includeContent |-> includeContent,
                               filePattern |-> filePattern,
                               maxResults |-> maxResults],
                  tree |-> fileTree]})
  /\ ret' = NoRet /\ emitted' = << >>
  /\ UNCHANGED << disk, fileTree, hist >>
  /\ TreeFrame

\* the refreshFileTree() of a searchFiles completes
TreeSearchRefreshed(c, statFails, listFails) ==
  /\ c \in BagToSet(fsCalls)
  /\ ~Hung
  /\ c.op = "searchFiles" /\ c.pc = "refresh"
  /\ LET t == buildFileTree(disk, RootPath, RootPath, statFails, listFails)
     IN IF t = Failed
        THEN /\ fileTree' = fileTree
             /\ emitted' = << >>
             /\ fsCalls' = fsCalls (-) SetToBag({c})
             /\ ret' = Ret("searchFiles",
                           [query |-> c.query, options |-> c.options,
                            tree |-> NoTree], "throws")
        ELSE /\ fileTree' = t
             /\ emitted' = << Ev("treeUpdated", t) >>
             /\ fsCalls' = (fsCalls (-) SetToBag({c})) (+)
                           SetToBag({[c EXCEPT !.pc = "search", !.tree = t]})
             /\ ret' = NoRet
  /\ UNCHANGED << disk, ncalls, hist >>
  /\ TreeFrame

\* the search runs over the tree the call holds and returns, or comes
\* to a line whose scan never ends
TreeSearchDone(c) ==
  /\ c \in BagToSet(fsCalls)
  /\ ~Hung
  /\ c.op = "searchFiles" /\ c.pc = "search"
  /\ LET r == searchInNode(c.tree, c.query,
                           [results |-> << >>, visited |-> << >>,
                            hangs |-> FALSE],
                           c.options, disk)
     IN IF r.hangs
        THEN /\ fsCalls' = (fsCalls (-) SetToBag({c})) (+)
                           SetToBag({[c EXCEPT !.pc = "hung"]})
             /\ ret' = NoRet
             /\ hist' = hist
        ELSE /\ fsCalls' = fsCalls (-) SetToBag({c})
             /\ ret' = Ret("searchFiles",
                           [query |-> c.query, options |-> c.options,
                            tree |-> c.tree],
                           Slice(r.results, c.options.maxResults))
             /\ hist' = r.visited
  /\ emitted' = << >>
  /\ UNCHANGED << disk, fileTree, ncalls >>
  /\ TreeFrame

MaxFails == 1    \* stat or readdir calls that fail within one refresh
FailSets(S) == {F \in SUBSET S : Cardinality(F) <= MaxFails}

TreeNext ==
  \/ \E q \in TreePaths, type \in {"directory", "file"} : WorldAdd(q, type)
  \/ \E q \in TreePaths : WorldRemove(q)
  \/ TreeRefreshCall
  \/ \E c \in BagToSet(fsCalls) :
       \E statFails \in FailSets(DOMAIN disk) :
         \E listFails \in FailSets({q \in DOMAIN disk :
                                      disk[q] = "directory"}) :
           TreeRefreshDone(c, statFails, listFails)
  \/ \E r \in SearchRequests :
       TreeSearchCall(r.query, r.includeContent, r.filePattern,
                      r.maxResults)
  \/ \E c \in BagToSet(fsCalls) :
       \E statFails \in FailSets(DOMAIN disk) :
         \E listFails \in FailSets({q \in DOMAIN disk :
                                      disk[q] = "directory"}) :
           TreeSearchRefreshed(c, statFails, listFails)
  \/ \E c \in BagToSet(fsCalls) : TreeSearchDone(c)

SpecTree == TreeInit /\ [][TreeNext]_vars

\* ---------------------------------------------------------------------
\* Claims about the file tree
\* ---------------------------------------------------------------------

\* the directory without the entries of S and what lies below them
Pruned(w, S) ==
  [x \in {y \in DOMAIN w :
            y \notin S /\ (y \in TreePaths => ParentOf[y] \notin S)} |->
     w[x]]

\* C30: when the stat or the listing of entries other than the root
\* fails during a refresh, the refresh completes, the stored tree is
\* replaced, treeUpdated is emitted with it, and the tree is the tree of
\* the directory without the failed entries and what lies below them.
CE_C30 ==
  (ret.op = "refreshFileTree"
     /\ RootPath \notin ret.id.stat \cup ret.id.list) =>
    /\ ret.result = "ok"
    /\ fileTree = buildFileTree(Pruned(disk, ret.id.stat \cup ret.id.list),
                                RootPath, RootPath, {}, {})
    /\ emitted = << Ev("treeUpdated", fileTree) >>

\* the entry names in ascending order of their UTF-16 code units
CodeUnitOrder == << ".git", "B", "a", "b.md" >>
Rank(order, name) == CHOOSE i \in DOMAIN order : order[i] = name

\* the nodes of the tree t
RECURSIVE NodesOf(_)
NodesOf(t) ==
  {t} \cup UNION {NodesOf(t.children[i]) : i \in DOMAIN t.children}

\* directories before files and, within each kind, ascending in order
Ordered(children, order) ==
  \A i, j \in DOMAIN children :
    i < j =>
      /\ ~(children[i].type = "file" /\ children[j].type = "directory")
      /\ children[i].type = children[j].type =>
           Rank(order, children[i].name) < Rank(order, children[j].name)
NoneIgnored(children) ==
  \A i \in DOMAIN children :
    children[i].name \notin {".git", "node_modules", "dist", "build"}

\* C31: in every tree refreshFileTree stores, the children of every
\* directory are ordered directories first and, within each kind, by
\* name in ascending lexicographic order, and none has an ignored name.
CE_C31 ==
  fileTree # NoTree =>
    \A n \in NodesOf(fileTree) :
      Ordered(n.children, CodeUnitOrder) /\ NoneIgnored(n.children)

\* C31, amended: the children are ordered directories first and, within
\* each kind, in the order of String.localeCompare on their names, and
\* none has an ignored name.
Thm_C31 ==
  fileTree # NoTree =>
    \A n \in NodesOf(fileTree) :
      Ordered(n.children, NameOrder) /\ NoneIgnored(n.children)

\* a tree of a directory that holds .git, the directories a and B and the
\* file b.md: a comes before B, and b.md last
W_C31 ==
  /\ fileTree # NoTree
  /\ {".git", "a", "B", "b.md"} \subseteq DOMAIN disk
  /\ Len(fileTree.children) = 3
  /\ fileTree.children[1].name = "a"
  /\ fileTree.children[2].name = "B"
  /\ fileTree.children[2].type = "directory"
  /\ fileTree.children[3].name = "b.md"


(***************************************************************************)
(* Claims about overlapping restarts, the watcher and the environment.     *)
(***************************************************************************)
\* C34: at most one backend of a preview instance is live at any time,
\* also when several restartPreview calls for the instance overlap
\* and no backend handle is overwritten without being stopped: where
\* restartPreview calls overlap on an instance and each of its live
\* backends is held by a handle field, no step starts another backend
\* while one is live
Held(id) == {srv[id].server, srv[id].httpServer, srv[id].process} \ {Null}
\* the calls under way are two or more restartPreview calls on id
OverlappingRestarts(id) ==
  /\ BagCardinality(calls) >= 2
  /\ \A c \in InFlight : c.id = id /\ c.op = "restart"
CE_C34 ==
  [][\A id \in DOMAIN srv :
       (/\ OverlappingRestarts(id)
        /\ LiveBackends(id) # {}
        /\ LiveBackends(id) \subseteq Held(id))
         => LiveBackends(id)' \subseteq LiveBackends(id)]_vars

\* C39: after stopPreview(id) has returned true the watcher of the
\* instance is closed: no later file change emits fileChanged for it or
\* touches its lastActivity (the handler calls restartPreview only after
\* both)
CE_C39 ==
  [][\A id \in DOMAIN inst :
       (id \notin previews /\ inst[id].status = "stopped")
         => /\ \A i \in 1 .. Len(emitted') :
                 emitted'[i] # Ev("fileChanged", id)
            /\ inst'[id].lastActivity = inst[id].lastActivity]_vars

\* process.env as the program finds it
BaseEnv == [k \in EnvNames |-> "unset"]
\* the instance was created without env overrides: the createPreview
\* requests for the working directory carry none
NoOverride(id) == inst[id].projectPath = WorkDir

\* C40: env overrides given to one createPreview call stay with that
\* instance: the backend of an instance created without overrides is
\* spawned with the environment the program was started with, whatever
\* was given to other instances before
CE_C40 ==
  \A id \in DOMAIN srv :
    (NoOverride(id) /\ srv[id].childEnv # NoEnv) => srv[id].childEnv = BaseEnv

\* C37: a set on a key that is present leaves every other key of the
\* cache present, also when the cache is at capacity
CE_C37 ==
  [][(/\ ret'.op = "set" /\ ncalls' = ncalls + 1
      /\ KeyIndex(cache, ret'.id) # 0)
       => \A k \in CacheKeys :
            KeyIndex(cache, k) # 0 => KeyIndex(cache', k) # 0]_vars

\* the process h is in the live-process map of a registered session
Reachable(h) ==
  \E id \in DOMAIN sessions :
    \E k \in DOMAIN sessObjs[sessions[id]].processes :
      sessObjs[sessions[id]].processes[k] = h

\* C38: a spawned process that has not exited, was not signalled and
\* whose session was not destroyed is in the live-process map of a
\* registered session, so that killProcess or destroySession reach it
CE_C38 ==
  \A h \in DOMAIN procs :
    (procs[h].status = "running" /\ procs[h].kills = 0) => Reachable(h)

(***************************************************************************)
(* Claims about the cached file-system layer under overlapping calls and   *)
(* several spellings of one path.                                          *)
(***************************************************************************)
\* a readFile(p) begins in this step and is answered from the cache
ReadHit(p) ==
  /\ ncalls' = ncalls + 1
  /\ ret'.op = "readFile" /\ ret'.id = p
  /\ ret'.result.ok

\* C33: once a writeFile(p, c) has completed and no later write or remove
\* of the file has begun, a readFile(p) returns c, also when a readFile(p)
\* that missed the cache was awaiting the base read while the write ran
CE_C33 ==
  [][\A p \in FilePaths :
       (/\ ReadHit(p)
        /\ hist[p].last = "write" /\ hist[p].via = p
        /\ WellFormed(hist[p].lcontent))
         => ret'.result = FsOk(hist[p].lcontent)]_vars

\* C35: a readFile through one spelling, after a writeFile or remove
\* completed through another spelling of the same file, does not return
\* content cached before that write or remove
CE_C35 ==
  [][\A p \in FilePaths :
       (/\ ReadHit(p)
        /\ hist[p].last \in {"write", "remove"} /\ hist[p].via # p
        /\ WellFormed(hist[p].lcontent))
         => /\ hist[p].last = "write"
            /\ ret'.result = FsOk(hist[p].lcontent)]_vars

\* ---- searchFiles ----

\* the search of a tree with no limit on the results
Unlimited(tree, query, options, w) ==
  searchInNode(tree, query,
               [results |-> << >>, visited |-> << >>, hangs |-> FALSE],
               [options EXCEPT !.maxResults = DefaultMaxResults], w)
\* position of a path in a sequence of paths, 0 when absent
PositionOf(q, visited) ==
  LET at == {i \in 1 .. Len(visited) : visited[i] = q}
  IN IF at = {} THEN 0 ELSE CHOOSE i \in at : \A j \in at : i <= j
\* the nodes a search may visit: those up to the one that gives the
\* maxResults-th result
VisitedUntilFull(full, maxResults) ==
  IF maxResults = 0 THEN << >>
  ELSE IF Len(full.results) < maxResults THEN full.visited
  ELSE SubSeq(full.visited, 1,
              PositionOf(full.results[maxResults].path, full.visited))
SearchReturned == ret.op = "searchFiles" /\ ret.result # "throws"

\* C32: searchFiles(query, {maxResults}) returns at most maxResults
\* entries, they are the first matching files in depth-first order of the
\* tree searched, and no node is visited after maxResults entries have
\* been collected
CE_C32 ==
  SearchReturned =>
    LET full == Unlimited(ret.id.tree, ret.id.query, ret.id.options, disk)
    IN ~full.hangs =>
         /\ Len(ret.result) <= ret.id.options.maxResults
         /\ ret.result = Slice(full.results, ret.id.options.maxResults)
         /\ hist = VisitedUntilFull(full, ret.id.options.maxResults)

\* C36: a searchFiles with includeContent set terminates: the scan of
\* every line of every text file makes progress, so no search is left in
\* a scan that never ends
CE_C36 ==
  \A c \in BagToSet(fsCalls) :
    (c.op = "searchFiles" /\ c.options.includeContent) => c.pc # "hung"


====
